---------------------------- MODULE Spec2Model ----------------------------
(***************************************************************************)
(* A model of the subverses subtitle pipeline:                             *)
(*   - SubtitleChunker / OverlapStitcher (src/subverses/translate.py:      *)
(*     split_into_chunks, _find_overlap, join_overlapping_chunks),         *)
(*   - TranslationSession (translate_srt, translate) with its checkpoint   *)
(*     file, process kills and service failures,                           *)
(*   - AudioSegmenter grouping (src/subverses/audio_parse.py:              *)
(*     get_sub_max_segments, recombine_segments, concat_audio_segments).   *)
(*                                                                         *)
(* Python lists are sequences; list index p (0-based) is element p + 1.    *)
(* A call that may raise returns a record [exc, val]: exc = "none" and the *)
(* value, or the name of the exception raised.                             *)
(***************************************************************************)
EXTENDS Integers, Sequences, FiniteSets, TLC

VARIABLES
    \* ---- shared by the chunker/stitcher and the translation session
    str_list,            \* the parsed source document (translate_srt's str_list)
    chunk_size,          \* translate_srt / split_into_chunks parameter
    overlap,             \* translate_srt / split_into_chunks parameter
    drift,               \* which translation service answers (see Service)
    srt_chunks,          \* what split_into_chunks returned
    \* ---- chunk / stitch pipeline on arbitrary translated texts
    cpc,                 \* position: "start", "split", "translated", "stitch",
                         \*           "joined", "error"
    translated,          \* the chunks with translated text, in order
    joined_chunks,       \* join_overlapping_chunks's accumulator / result
    k,                   \* number of chunks the stitch loop has consumed
    diag,                \* number of "No overlap found" diagnostics printed
    \* ---- translation session
    pc,                  \* "idle", "loop", "called", "returned", "done",
                         \* "failed", "skipped"
    wip_file,            \* the checkpoint file: NoFile or [i, translated_chunks, messages]
    wip,                 \* the checkpoint as loaded by this run (NoFile: none)
    i,                   \* translate_srt's loop index
    messages,            \* translate_srt's conversation
    translated_chunks,   \* translate_srt's translated chunks
    result,              \* what translate_srt returned, NoResult before
    error,               \* the exception that ended this run, "none" otherwise
    translated_srt,      \* the translated subtitle file: NoFile or the dumped list
    requests,            \* history: every request made of the service, in order
    kill_log,            \* history: <<pc, i>> at every process kill
    fail_log,            \* history: <<exception, i>> of every run that raised
                         \*          with a chunk in flight
    runs,                \* history: number of runs started
    \* ---- audio segmenter
    spc,                 \* position: "start", "concat", "done", "error"
    segment_sizes,       \* byte size of every split file, by segment number
    max_clip_size,       \* the size cap
    segments,            \* recombine_segments's parameter: the silence boundaries
    split_files,         \* segment numbers whose split file is on disk
    segment_groups,      \* what get_sub_max_segments returned
    recombined,          \* the clusters concatenated so far
    seg_error,           \* the exception recombine_segments raised, "none" otherwise
    concat_files,        \* whether concat_files.txt is on disk
    returncode,          \* the exit code of the last ffmpeg that merged a cluster
    \* ---- transcription of an oversized asset
    tpc,                 \* position: "idle", "loop", "called", "done", "failed",
                         \*           "skipped"
    audio_segment_splits, \* split_audio's result: the start time of every cluster
    segment_srt,         \* the transcript file of every cluster: NoFile or its subs
    srt_path,            \* the asset's transcript file: NoFile or its subs
    start_transcription_segment,    \* context: resume-from-segment
    force_transcription_from_audio, \* context: the force flag
    segment_no,          \* transcribe_audio's loop index
    transcription,       \* what transcribe_file returned, cluster by cluster
    local_subs,          \* history: what the service last returned for a cluster
    sent,                \* history: the clusters sent to the service in this run
    read_back,           \* history: the clusters read back from file in this run
    truns,               \* history: number of runs started
    \* ---- the subtitle file format: srt_dump and srt_parse
    fpc,                 \* position: "list", "file", "parsed", "redumped"
    dumped_list,         \* the srt_list given to srt_dump (<<>> when a file is given)
    srt_text,            \* the text of the subtitle file
    subtitles,           \* what srt_parse returned
    logged,              \* number of "Error parsing subtitles" lines printed
    parse_exc,           \* the exception that left srt_parse, "none" otherwise
    redumped,            \* the text srt_dump writes for the parsed subtitles
    \* ---- replace_translation on a chunk and a reply
    rpc,                 \* position: "start", "replaced", "shuffled"
    reply_chunk,         \* the chunk given to replace_translation
    reply_lines,         \* the new_texts given to replace_translation
    replaced,            \* what replace_translation returned
    shuffled,            \* the lines of the reply in another order
    replaced_shuffled,   \* what replace_translation returned for them
    \* ---- silence detection
    dpc,                 \* position: "start", "done"
    tool_written,        \* the lines ffmpeg writes, in the order written
    tool_returncode,     \* ffmpeg's exit code
    min_silence_len_sec, \* context: the shortest silence looked for
    silence_splits       \* what detect_silence_splits_with_ffmpeg returned

docVars == <<str_list, chunk_size, overlap, drift>>
chunkVars == <<cpc, translated, joined_chunks, k, diag>>
sessionVars == <<pc, wip_file, wip, i, messages, translated_chunks, result, error,
                 translated_srt, requests, kill_log, fail_log, runs>>
transVars == <<tpc, audio_segment_splits, segment_srt, srt_path,
               start_transcription_segment, force_transcription_from_audio,
               segment_no, transcription, local_subs, sent, read_back, truns>>
srtVars == <<fpc, dumped_list, srt_text, subtitles, logged, parse_exc, redumped>>
audioVars == <<spc, segment_sizes, max_clip_size, segments, split_files,
               segment_groups, recombined, seg_error, concat_files, returncode>>
\* Everything outside the chunker and the translation session.
replyVars == <<rpc, reply_chunk, reply_lines, replaced, shuffled, replaced_shuffled>>
detectVars == <<dpc, tool_written, tool_returncode, min_silence_len_sec,
                silence_splits>>
segVars == <<audioVars, transVars, srtVars, replyVars, detectVars>>
vars == <<docVars, srt_chunks, chunkVars, sessionVars, segVars>>

---------------------------------------------------------------------------
(* Bounds of the model. *)

MaxLen == 5          \* longest source document, in entries
MaxChunk == 3        \* largest chunk_size

\* The texts an entry can carry; equal texts in different entries are allowed.
Texts == {0, 1, 2}

Min(a, b) == IF a < b THEN a ELSE b
Max(a, b) == IF a > b THEN a ELSE b

Ok(v) == [exc |-> "none", val |-> v, diag |-> 0]
Raise(e) == [exc |-> e, val |-> <<>>, diag |-> 0]

NoFile == [exists |-> FALSE]

---------------------------------------------------------------------------
(* Python list slicing and indexing. *)

\* The position a slice bound b denotes in a list of n elements.
SliceBound(n, b) == IF b < 0 THEN Max(n + b, 0) ELSE Min(b, n)

\* lst[a:b]
PySlice(lst, a, b) ==
    LET lo == SliceBound(Len(lst), a)
        hi == SliceBound(Len(lst), b)
    IN  IF lo >= hi THEN <<>> ELSE SubSeq(lst, lo + 1, hi)

\* lst[a:]
PyFrom(lst, a) == PySlice(lst, a, Len(lst))

\* lst[:b]
PyUpTo(lst, b) == PySlice(lst, 0, b)

\* lst[p] is defined (no IndexError)
PyHas(lst, p) == IF p < 0 THEN Len(lst) + p >= 0 ELSE p < Len(lst)

\* lst[p], for PyHas(lst, p)
PyAt(lst, p) == IF p < 0 THEN lst[Len(lst) + p + 1] ELSE lst[p + 1]

RECURSIVE Flatten(_)
\* list(chain.from_iterable(lists))
Flatten(lists) ==
    IF lists = <<>> THEN <<>> ELSE Head(lists) \o Flatten(Tail(lists))

---------------------------------------------------------------------------
(* SubtitleChunker: split_into_chunks. *)

RECURSIVE SplitLoopNoOverlap(_, _, _, _, _)
\* SplitLoop with the window advanced by the whole chunk size.
SplitLoopNoOverlap(lst, size, ov, at, chunks) ==
    IF at < Len(lst)
    THEN LET next == Append(chunks, PySlice(lst, at, at + size))
         IN  IF at + size >= Len(lst)
             THEN next
             ELSE SplitLoopNoOverlap(lst, size, ov, at + size, next)
    ELSE chunks

RECURSIVE SplitLoopToLastIndex(_, _, _, _, _)
\* SplitLoop that goes on until the window would start past the last index.
SplitLoopToLastIndex(lst, size, ov, at, chunks) ==
    IF at < Len(lst)
    THEN SplitLoopToLastIndex(lst, size, ov, at + size - ov,
                              Append(chunks, PySlice(lst, at, at + size)))
    ELSE chunks

RECURSIVE SplitLoopBreaksLate(_, _, _, _, _)
\* SplitLoop that stops once a window reaches past the end, not at the end.
SplitLoopBreaksLate(lst, size, ov, at, chunks) ==
    IF at < Len(lst)
    THEN LET next == Append(chunks, PySlice(lst, at, at + size))
         IN  IF at + size > Len(lst)
             THEN next
             ELSE SplitLoopBreaksLate(lst, size, ov, at + size - ov, next)
    ELSE chunks

RECURSIVE SplitLoop(_, _, _, _, _)
\* The while loop of split_into_chunks, from starting index at.
SplitLoop(lst, size, ov, at, chunks) ==
    IF at < Len(lst)
    THEN LET next == Append(chunks, PySlice(lst, at, at + size))
         IN  IF at + size >= Len(lst)
             THEN next
             ELSE SplitLoop(lst, size, ov, at + size - ov, next)
    ELSE chunks

split_into_chunks(lst, size, ov) ==
    IF size <= ov
    THEN Raise("ValueError")
    ELSE Ok(SplitLoop(lst, size, ov, 0, <<>>))

---------------------------------------------------------------------------
(* OverlapStitcher: _find_overlap and join_overlapping_chunks. *)

RECURSIVE FindLoopSkipsEntry(_, _, _, _)
\* FindLoop with the later chunk spliced one entry too late.
FindLoopSkipsEntry(chunk1, chunk2, ov, s) ==
    IF s >= ov
    THEN [exc |-> "none", val |-> chunk1 \o PyFrom(chunk2, ov), diag |-> 1]
    ELSE IF ~PyHas(chunk1, s - ov) \/ ~PyHas(chunk2, s)
    THEN Raise("IndexError")
    ELSE IF PyAt(chunk1, s - ov).text = PyAt(chunk2, s).text
    THEN Ok(PyUpTo(chunk1, s - ov) \o PyFrom(chunk2, s + 1))
    ELSE FindLoopSkipsEntry(chunk1, chunk2, ov, s + 1)

\* FindLoop without the search: the later chunk is spliced at shift 0 whether
\* or not the texts agree there.
FindLoopNoSearch(chunk1, chunk2, ov, s) ==
    IF s >= ov
    THEN [exc |-> "none", val |-> chunk1 \o PyFrom(chunk2, ov), diag |-> 1]
    ELSE IF ~PyHas(chunk1, s - ov) \/ ~PyHas(chunk2, s)
    THEN Raise("IndexError")
    ELSE Ok(PyUpTo(chunk1, s - ov) \o PyFrom(chunk2, s))

RECURSIVE FindLoopNoFallback(_, _, _, _)
\* FindLoop that fails when the search finds no equal text.
FindLoopNoFallback(chunk1, chunk2, ov, s) ==
    IF s >= ov
    THEN Raise("ValueError")
    ELSE IF ~PyHas(chunk1, s - ov) \/ ~PyHas(chunk2, s)
    THEN Raise("IndexError")
    ELSE IF PyAt(chunk1, s - ov).text = PyAt(chunk2, s).text
    THEN Ok(PyUpTo(chunk1, s - ov) \o PyFrom(chunk2, s))
    ELSE FindLoopNoFallback(chunk1, chunk2, ov, s + 1)

RECURSIVE FindLoop(_, _, _, _)
\* The for loop of _find_overlap from shift s, and the fallback after it.
FindLoop(chunk1, chunk2, ov, s) ==
    IF s >= ov
    THEN [exc |-> "none", val |-> chunk1 \o PyFrom(chunk2, ov), diag |-> 1]
    ELSE IF ~PyHas(chunk1, s - ov) \/ ~PyHas(chunk2, s)
    THEN Raise("IndexError")
    ELSE IF PyAt(chunk1, s - ov).text = PyAt(chunk2, s).text
    THEN Ok(PyUpTo(chunk1, s - ov) \o PyFrom(chunk2, s))
    ELSE FindLoop(chunk1, chunk2, ov, s + 1)

_find_overlap(chunk1, chunk2, ov) ==
    IF chunk1 = <<>> THEN Ok(chunk2) ELSE FindLoop(chunk1, chunk2, ov, 0)

RECURSIVE JoinLoop(_, _, _, _)
\* The for loop of join_overlapping_chunks over chunks[n+1..], acc so far,
\* d diagnostics printed so far.
JoinLoop(chunks, ov, acc, d) ==
    IF chunks = <<>>
    THEN [exc |-> "none", val |-> acc, diag |-> d]
    ELSE LET r == _find_overlap(acc, Head(chunks), ov)
         IN  IF r.exc # "none"
             THEN [r EXCEPT !.diag = d]
             ELSE JoinLoop(Tail(chunks), ov, r.val, d + r.diag)

\* JoinTrivial with every chunk kept whole.
JoinTrivialKeepsOverlap(chunks, ov) == Flatten(chunks)

\* The overlap <= 1 branch: chunks[0:1] + [chunk[overlap:] for chunk in chunks[1:]]
JoinTrivial(chunks, ov) ==
    Flatten(PySlice(chunks, 0, 1)
            \o [n \in 1..Len(PyFrom(chunks, 1)) |-> PyFrom(PyFrom(chunks, 1)[n], ov)])

join_overlapping_chunks(chunks, ov) ==
    IF ov <= 1 THEN Ok(JoinTrivial(chunks, ov)) ELSE JoinLoop(chunks, ov, <<>>, 0)

---------------------------------------------------------------------------
(* The numbered-line protocol: concatenate_srt_list, replace_translation.   *)
(* A text is a number; 2n + 1 is a spelling of 2n that differs from it only *)
(* in white space or line breaks, which textwrap.wrap normalises away.      *)
(* A reply line is [num, text] when the pattern number-colon-text matches   *)
(* in it, and has num = NoMatch when the pattern matches nowhere in it.     *)

NoMatch == -1

word_wrap(text) == 2 * (text \div 2)

\* concatenate_srt_list with the lines numbered from 1.
concatenate_srt_list_from_one(srt_list) ==
    [n \in 1..Len(srt_list) |-> [num |-> n, text |-> srt_list[n].text]]

\* One line per entry, numbered by enumerate(srt_list), joined by blank lines.
concatenate_srt_list(srt_list) ==
    [n \in 1..Len(srt_list) |-> [num |-> n - 1, text |-> srt_list[n].text]]

\* replace_translation with line x written to position x of the chunk.
replace_translation_by_position(srt_list, new_texts) ==
    Ok([n \in 1..Len(srt_list) |->
          IF n <= Len(new_texts)
          THEN [srt_list[n] EXCEPT !.text = word_wrap(new_texts[n].text)]
          ELSE srt_list[n]])

RECURSIVE ReplaceLoopFirstWins(_, _)
\* ReplaceLoop with the lines taken from the last to the first.
ReplaceLoopFirstWins(srt_list, new_texts) ==
    IF new_texts = <<>>
    THEN Ok(srt_list)
    ELSE LET r == ReplaceLoopFirstWins(srt_list, Tail(new_texts))
             line == Head(new_texts)
         IN  IF r.exc # "none" \/ line.num = NoMatch \/ ~PyHas(srt_list, line.num)
             THEN Raise("IndexError")
             ELSE Ok([r.val EXCEPT ![line.num + 1].text = word_wrap(line.text)])

RECURSIVE ReplaceLoop(_, _)
\* The for loop of replace_translation over the lines left.
ReplaceLoop(srt_list, new_texts) ==
    IF new_texts = <<>>
    THEN Ok(srt_list)
    ELSE LET line == Head(new_texts)
         IN  IF line.num = NoMatch \/ ~PyHas(srt_list, line.num)
             THEN Raise("IndexError")
             ELSE ReplaceLoop(
                    [srt_list EXCEPT ![line.num + 1].text = word_wrap(line.text)],
                    Tail(new_texts))

replace_translation(srt_list, new_texts) == ReplaceLoop(srt_list, new_texts)

\* replace_translation working on srt_list itself: what the caller's list
\* holds afterwards is what the function returns.
replace_translation_in_place(srt_list, new_texts) ==
    LET r == ReplaceLoop(srt_list, new_texts)
    IN  IF r.exc = "none" THEN r.val ELSE srt_list

\* The list the caller passed as srt_list, after replace_translation has
\* returned: the function rebinds srt_list to a deepcopy before it writes.
replace_translation_argument(srt_list, new_texts) == srt_list

\* lst[i : i + chunk_size] copies the list, not the entries: the chunk that
\* starts at index `first` of lst shares its entries with lst, so lst shows
\* what those entries hold once the chunk's entries hold `chunk`.
SharedEntries(lst, first, chunk) ==
    [p \in 1..Len(lst) |->
        IF p - first \in 1..Len(chunk) THEN chunk[p - first] ELSE lst[p]]

---------------------------------------------------------------------------
(* Inputs. *)

\* The entry srt_parse returns for block p (0-based) of the source file.
Entry(p, t) == [text |-> t, start_time |-> p, end_time |-> p + 1]

DocsOver(T) ==
    UNION {{[p \in 1..n |-> Entry(p - 1, f[p])] : f \in [1..n -> T]} : n \in 0..MaxLen}

Docs == DocsOver(Texts)

PlainDocs == DocsOver({0})

Valid == 0 <= overlap /\ overlap < chunk_size

\* Replies that keep every line and index of the chunk, with any texts.
FullReplies(chunk) ==
    {[n \in 1..Len(chunk) |-> [num |-> n - 1, text |-> f[n]]] :
        f \in [1..Len(chunk) -> Texts]}

---------------------------------------------------------------------------
(* The parts of the state a specification does not use stay at these values. *)

NoResult == [exc |-> "pending", val |-> <<>>, diag |-> 0]

ChunkOff ==
    /\ cpc = "off" /\ translated = <<>> /\ joined_chunks = <<>>
    /\ k = 0 /\ diag = 0

SessionOff ==
    /\ pc = "off" /\ wip_file = NoFile /\ wip = NoFile /\ i = 0
    /\ messages = <<>> /\ translated_chunks = <<>>
    /\ result = NoResult /\ error = "none" /\ translated_srt = NoFile
    /\ requests = <<>> /\ kill_log = <<>> /\ fail_log = <<>> /\ runs = 0

TransOff ==
    /\ tpc = "off" /\ audio_segment_splits = <<>> /\ segment_srt = <<>>
    /\ srt_path = NoFile /\ start_transcription_segment = 0
    /\ force_transcription_from_audio = FALSE /\ segment_no = 0
    /\ transcription = <<>> /\ local_subs = <<>> /\ sent = {} /\ read_back = {}
    /\ truns = 0

SegIdle ==
    /\ spc = "off" /\ segment_sizes = <<>> /\ max_clip_size = 0
    /\ segments = <<>> /\ split_files = {} /\ segment_groups = <<>> /\ recombined = <<>>
    /\ seg_error = "none" /\ concat_files = FALSE /\ returncode = 0

SrtOff ==
    /\ fpc = "off" /\ dumped_list = <<>> /\ srt_text = <<>> /\ subtitles = <<>>
    /\ logged = 0 /\ parse_exc = "none" /\ redumped = <<>>

ReplyOff ==
    /\ rpc = "off" /\ reply_chunk = <<>> /\ reply_lines = <<>> /\ replaced = NoResult
    /\ shuffled = <<>> /\ replaced_shuffled = NoResult

DetectOff ==
    /\ dpc = "off" /\ tool_written = <<>> /\ tool_returncode = 0
    /\ min_silence_len_sec = 0 /\ silence_splits = NoResult

SegOff == SegIdle /\ TransOff /\ SrtOff /\ ReplyOff /\ DetectOff

---------------------------------------------------------------------------
(* Specification SpecChunk: the chunker and the stitcher on a document,     *)
(* with the translated chunks either unchanged (drift = 0) or rewritten by  *)
(* replace_translation from any reply that keeps the numbering (drift = 1). *)

InitChunk ==
    /\ \/ drift = 0 /\ str_list \in Docs
       \/ drift = 1 /\ str_list \in PlainDocs
    /\ chunk_size \in 1..MaxChunk
    /\ overlap \in -1..MaxChunk
    /\ cpc = "start" /\ srt_chunks = <<>> /\ translated = <<>>
    /\ joined_chunks = <<>> /\ k = 0 /\ diag = 0
    /\ SessionOff /\ SegOff

\* srt_chunks = split_into_chunks(str_list, chunk_size, overlap)
Split ==
    /\ cpc = "start"
    /\ LET r == split_into_chunks(str_list, chunk_size, overlap)
       IN  /\ srt_chunks' = r.val
           /\ cpc' = IF r.exc = "none" THEN "split" ELSE "error"
    /\ UNCHANGED <<translated, joined_chunks, k, diag>>
    /\ UNCHANGED <<docVars, sessionVars, segVars>>

\* The identity translation: every chunk is handed on unchanged.
KeepChunks ==
    /\ cpc = "split" /\ drift = 0
    /\ translated' = srt_chunks
    /\ cpc' = "translated"
    /\ UNCHANGED <<srt_chunks, joined_chunks, k, diag>>
    /\ UNCHANGED <<docVars, sessionVars, segVars>>

\* translated_chunks += [replace_translation(chunk, translated_list)]
TranslateChunk ==
    /\ cpc = "split" /\ drift = 1
    /\ Len(translated) < Len(srt_chunks)
    /\ \E reply \in FullReplies(srt_chunks[Len(translated) + 1]) :
         LET n == Len(translated) + 1
             after == replace_translation_argument(srt_chunks[n], reply)
             doc == SharedEntries(str_list, (n - 1) * (chunk_size - overlap), after)
         IN  /\ translated' = Append(translated,
                                     replace_translation(srt_chunks[n], reply).val)
             /\ str_list' = doc
             /\ srt_chunks' = split_into_chunks(doc, chunk_size, overlap).val
    /\ UNCHANGED <<chunk_size, overlap, drift>>
    /\ UNCHANGED <<cpc, joined_chunks, k, diag>>
    /\ UNCHANGED <<sessionVars, segVars>>

AllTranslated ==
    /\ cpc = "split" /\ drift = 1
    /\ Len(translated) = Len(srt_chunks)
    /\ cpc' = "translated"
    /\ UNCHANGED <<srt_chunks, translated, joined_chunks, k, diag>>
    /\ UNCHANGED <<docVars, sessionVars, segVars>>

\* join_overlapping_chunks, entered: the overlap <= 1 branch returns at once,
\* otherwise the stitch loop starts from an empty accumulator.
JoinEnter ==
    /\ cpc = "translated"
    /\ IF overlap <= 1
       THEN /\ joined_chunks' = JoinTrivial(translated, overlap)
            /\ cpc' = "joined"
       ELSE /\ joined_chunks' = <<>>
            /\ cpc' = "stitch"
    /\ k' = 0
    /\ UNCHANGED <<srt_chunks, translated, diag>>
    /\ UNCHANGED <<docVars, sessionVars, segVars>>

\* joined_chunks = _find_overlap(joined_chunks, chunk, overlap), one iteration
StitchStep ==
    /\ cpc = "stitch"
    /\ k < Len(translated)
    /\ LET r == _find_overlap(joined_chunks, translated[k + 1], overlap)
       IN  /\ joined_chunks' = IF r.exc = "none" THEN r.val ELSE joined_chunks
           /\ cpc' = IF r.exc = "none" THEN "stitch" ELSE "error"
           /\ diag' = diag + r.diag
    /\ k' = k + 1
    /\ UNCHANGED <<srt_chunks, translated>>
    /\ UNCHANGED <<docVars, sessionVars, segVars>>

\* return joined_chunks
StitchReturn ==
    /\ cpc = "stitch"
    /\ k = Len(translated)
    /\ cpc' = "joined"
    /\ UNCHANGED <<srt_chunks, translated, joined_chunks, k, diag>>
    /\ UNCHANGED <<docVars, sessionVars, segVars>>

NextChunk ==
    \/ Split
    \/ KeepChunks
    \/ TranslateChunk
    \/ AllTranslated
    \/ JoinEnter
    \/ StitchStep
    \/ StitchReturn

SpecChunk == InitChunk /\ [][NextChunk]_vars

---------------------------------------------------------------------------
(* Claims about the chunker and the stitcher, checked under SpecChunk. *)

\* split_into_chunks has returned chunks for the document of this state.
ChunksMade == cpc \in {"split", "translated", "stitch", "joined"}

\* A document of 20 entries, and the first and last document index of each
\* chunk that split_into_chunks makes of it with chunk_size 8 and overlap 3.
Doc20 == [p \in 1..20 |-> Entry(p - 1, 0)]
Windows20 ==
    LET chunks == split_into_chunks(Doc20, 8, 3).val
    IN  [j \in 1..Len(chunks) |->
            <<chunks[j][1].start_time, chunks[j][Len(chunks[j])].start_time>>]

\* C1: for 0 <= overlap < chunk_size, splitting a document and joining the
\* unchanged chunks gives back exactly the document: every entry once, in
\* order, also when several entries carry the same text.
C1_ChunkStitchIdentity ==
    (cpc = "joined" /\ Valid /\ translated = srt_chunks)
        => joined_chunks = str_list

\* A document with equal texts inside an overlap region was split into three
\* or more chunks with overlap >= 2 and joined unchanged.
C1_Witness ==
    /\ cpc = "joined" /\ Valid /\ overlap >= 2
    /\ translated = srt_chunks /\ Len(srt_chunks) >= 3
    /\ str_list[2].text = str_list[3].text
    /\ str_list[1].text # str_list[2].text

\* C8: for 0 <= overlap < chunk_size, chunk j (from 0) is the window of the
\* document that starts at index j * (chunk_size - overlap); every chunk but
\* the last has chunk_size entries; chunk j + 1 begins with the last overlap
\* entries of chunk j; every entry is in some chunk; and 20 entries with
\* chunk_size 8 and overlap 3 give the windows 0-7, 5-12, 10-17, 15-19.
C8_ChunkWindows ==
    /\ (ChunksMade /\ Valid) =>
         LET step == chunk_size - overlap
             n == Len(srt_chunks)
         IN  /\ \A j \in 1..n :
                   /\ srt_chunks[j] # <<>>
                   /\ srt_chunks[j] =
                        SubSeq(str_list, (j - 1) * step + 1,
                               Min(Len(str_list), (j - 1) * step + chunk_size))
                   /\ j < n => Len(srt_chunks[j]) = chunk_size
                   /\ j < n =>
                        SubSeq(srt_chunks[j + 1], 1, overlap) =
                        SubSeq(srt_chunks[j], chunk_size - overlap + 1, chunk_size)
             /\ \A p \in 1..Len(str_list) :
                   \E j \in 1..n : \E q \in 1..Len(srt_chunks[j]) :
                       srt_chunks[j][q] = str_list[p]
    /\ Windows20 = <<<<0, 7>>, <<5, 12>>, <<10, 17>>, <<15, 19>>>>

\* A document was split with an overlap into several chunks, the last one
\* shorter than chunk_size.
C8_Witness ==
    /\ cpc = "split" /\ Valid /\ overlap >= 1
    /\ Len(srt_chunks) >= 2
    /\ Len(srt_chunks[Len(srt_chunks)]) < chunk_size

\* C9 (the claim as stated): a pair that violates 0 <= overlap < chunk_size
\* is never chunked: split_into_chunks raises for it instead of returning
\* windows, and translate_srt fails for it before any request is sent.
C9_InvalidPairNeverChunked ==
    /\ ~Valid => ~ChunksMade
    /\ (~Valid /\ pc \notin {"off", "idle"}) => (pc = "failed" /\ requests = <<>>)

\* The shifts at which the accumulated tail and the chunk head agree in text.
MatchShifts(acc, chunk) ==
    {s \in 0..(overlap - 1) :
        acc[Len(acc) - overlap + s + 1].text = chunk[s + 1].text}

\* C10: for overlap >= 2, a stitch step on a non-empty accumulated result
\* whose tail matches the next chunk's head at some shift takes the smallest
\* such shift s and yields accumulated[:-overlap+s] + chunk[s:]: the overlap
\* entries before s keep the earlier chunk's text, those from s on the later's.
C10_SmallestShiftSplice ==
    [][(/\ cpc = "stitch" /\ k' = k + 1 /\ overlap >= 2 /\ Valid
        /\ joined_chunks # <<>>
        /\ MatchShifts(joined_chunks, translated[k + 1]) # {})
       => LET chunk == translated[k + 1]
              hits == MatchShifts(joined_chunks, chunk)
              s == CHOOSE x \in hits : \A y \in hits : x <= y
              keep == Len(joined_chunks) - overlap + s
          IN  /\ cpc' = "stitch"
              /\ joined_chunks' =
                   SubSeq(joined_chunks, 1, keep) \o SubSeq(chunk, s + 1, Len(chunk))
              /\ \A x \in 1..keep : joined_chunks'[x] = joined_chunks[x]
              /\ \A x \in (s + 1)..Len(chunk) :
                   joined_chunks'[keep + x - s] = chunk[x]]_vars

\* The second chunk was stitched onto the first at shift 1: the texts differ
\* at shift 0 and agree at shift 1.
C10_Witness ==
    /\ cpc = "stitch" /\ k = 2 /\ overlap >= 2 /\ Valid
    /\ PyAt(translated[1], 0 - overlap).text # PyAt(translated[2], 0).text
    /\ PyAt(translated[1], 1 - overlap).text = PyAt(translated[2], 1).text
    /\ joined_chunks = PyUpTo(translated[1], 1 - overlap) \o PyFrom(translated[2], 1)

\* C11: for overlap >= 2, a stitch step on a non-empty accumulated result
\* whose tail agrees with the next chunk's head at no shift in 0..overlap-1
\* does not fail: it appends the chunk without its first overlap entries,
\* prints one diagnostic and stays in the stitch loop; the loop then consumes
\* every remaining chunk and returns.
C11_NoMatchFallsBack ==
    /\ [][(/\ cpc = "stitch" /\ k' = k + 1 /\ overlap >= 2 /\ Valid
            /\ joined_chunks # <<>>
            /\ MatchShifts(joined_chunks, translated[k + 1]) = {})
           => LET chunk == translated[k + 1]
              IN  /\ cpc' = "stitch"
                  /\ joined_chunks' =
                       joined_chunks \o SubSeq(chunk, overlap + 1, Len(chunk))
                  /\ diag' = diag + 1]_vars
    /\ []((Valid /\ overlap >= 2) => cpc # "error")
    /\ []((Valid /\ overlap >= 2 /\ cpc = "stitch")
            => (ENABLED StitchStep \/ ENABLED StitchReturn))
    /\ []((Valid /\ overlap >= 2 /\ cpc = "joined") => k = Len(translated))

\* Three chunks were joined; the second matched the first nowhere in the
\* overlap, a diagnostic was printed, and the third chunk was stitched on.
C11_Witness ==
    /\ cpc = "joined" /\ Valid /\ overlap >= 2
    /\ Len(translated) >= 3 /\ k = Len(translated)
    /\ MatchShifts(translated[1], translated[2]) = {}
    /\ diag >= 1
    /\ joined_chunks[Len(joined_chunks)] = translated[3][Len(translated[3])]

\* C21: for a valid pair and any translated texts, the stitched document
\* has as many entries as the source document and its entry at position p
\* carries the timecodes of source entry p; while the stitch loop runs, the
\* accumulated result is such a prefix of the document.
C21_StitchKeepsAlignment ==
    /\ (cpc = "joined" /\ Valid) =>
          /\ Len(joined_chunks) = Len(str_list)
          /\ \A p \in 1..Len(str_list) :
                /\ joined_chunks[p].start_time = str_list[p].start_time
                /\ joined_chunks[p].end_time = str_list[p].end_time
    /\ (cpc = "stitch" /\ Valid /\ k >= 1) =>
          /\ Len(joined_chunks) = (k - 1) * (chunk_size - overlap) + Len(translated[k])
          /\ \A p \in 1..Len(joined_chunks) :
                joined_chunks[p].start_time = str_list[p].start_time

\* Three translated chunks were joined: the second matched the first only at
\* shift 1, the third matched nowhere, and the result differs from the source
\* in text.
C21_Witness ==
    /\ cpc = "joined" /\ Valid /\ overlap >= 2 /\ drift = 1
    /\ Len(translated) = 3 /\ diag = 1
    /\ MatchShifts(translated[1], translated[2]) = {1}
    /\ Len(joined_chunks) = Len(str_list)
    /\ \E p \in 1..Len(str_list) : joined_chunks[p].text # str_list[p].text

\* C22 (the claim as stated): a window is emitted for every start position
\* j * (chunk_size - overlap) that is <= the last index of the document.
C22_WindowForEveryStart ==
    (ChunksMade /\ Valid) =>
        \A j \in 0..Len(str_list) :
            j * (chunk_size - overlap) <= Len(str_list) - 1
                => j < Len(srt_chunks)

\* C22 (amended): the loop stops as soon as a window reaches the end of the
\* document, that is at the first j with j * step + chunk_size >= length:
\* that window is the last, it ends at the last index, and every window
\* before it ends before the last index; start positions after it get no
\* window although they may be <= the last index.
C22_StopsAtFirstWindowReachingEnd ==
    (ChunksMade /\ Valid /\ str_list # <<>>) =>
        LET step == chunk_size - overlap
            n == Len(srt_chunks)
            last(j) == srt_chunks[j][Len(srt_chunks[j])]
        IN  /\ n >= 1
            /\ (n - 1) * step + chunk_size >= Len(str_list)
            /\ \A j \in 1..(n - 1) : (j - 1) * step + chunk_size < Len(str_list)
            /\ last(n) = str_list[Len(str_list)]
            /\ \A j \in 1..(n - 1) : last(j).start_time < str_list[Len(str_list)].start_time
            /\ \A j \in 1..n : srt_chunks[j][1] = str_list[(j - 1) * step + 1]

\* A document was split into two or more windows, and the start position
\* after the last window is still inside the document.
C22_Witness ==
    /\ cpc = "split" /\ Valid
    /\ Len(srt_chunks) >= 2
    /\ Len(srt_chunks) * (chunk_size - overlap) <= Len(str_list) - 1

\* C29: for a valid pair split_into_chunks returns no empty chunk and every
\* chunk after the first has more than overlap entries; when a chunk is
\* stitched on, the accumulated result has at least overlap entries, so the
\* stitcher reads inside both lists and never ends in an error.
C29_IndicesStayInside ==
    /\ (ChunksMade /\ Valid) =>
          /\ \A j \in 1..Len(srt_chunks) : srt_chunks[j] # <<>>
          /\ \A j \in 2..Len(srt_chunks) : Len(srt_chunks[j]) > overlap
    /\ (cpc = "stitch" /\ Valid /\ k >= 1 /\ k < Len(translated)) =>
          /\ Len(joined_chunks) >= overlap
          /\ Len(translated[k + 1]) > overlap
          /\ \A s \in 0..(overlap - 1) :
                PyHas(joined_chunks, s - overlap) /\ PyHas(translated[k + 1], s)
          /\ _find_overlap(joined_chunks, translated[k + 1], overlap).exc = "none"
    /\ Valid => cpc # "error"

\* The last chunk of three, one entry longer than the overlap, is about to be
\* stitched onto an accumulated result.
C29_Witness ==
    /\ cpc = "stitch" /\ Valid /\ overlap >= 2
    /\ k = 2 /\ Len(translated) = 3
    /\ Len(translated[3]) = overlap + 1
    /\ Len(joined_chunks) > overlap

---------------------------------------------------------------------------
(* TranslationSession: the messages, the service, translate_srt, translate. *)

MaxRuns == 3         \* runs of translate on the document (kills and failures included)

\* translation_message(text_chunk, ...): one user message holding the chunk's lines
translation_message(text_chunk) == <<[role |-> "user", content |-> text_chunk]>>

\* translation_messages(messages, ...): the fixed system instruction, then messages
translation_messages(msgs) == <<[role |-> "system", content |-> <<>>]>> \o msgs

\* What the service's reply depends on besides the lines to translate: how many
\* messages it was sent and the first line of the reply it was shown.
Context(msgs) ==
    Len(msgs) + (IF Len(msgs) >= 3 /\ msgs[Len(msgs) - 1].content # <<>>
                 THEN msgs[Len(msgs) - 1].content[1].text
                 ELSE 0)

\* The translation service, a function of the messages it is sent. The lines
\* of its reply (find_translated_text, then the split on blank lines):
\*   0: every line translated on its own;
\*   1: every line translated in the light of the conversation sent along;
\*   2: as 0, after a line of preamble that carries no index;
\*   3: as 0, with the last line missing when there are several;
\*   4: as 0, with one more line numbered past the end of the chunk.
Service(msgs, kind) ==
    LET lines == msgs[Len(msgs)].content
        plain == [n \in 1..Len(lines) |->
                    [num |-> lines[n].num, text |-> 4 + lines[n].text]]
        inContext == [n \in 1..Len(lines) |->
                    [num |-> lines[n].num,
                     text |-> 4 + ((lines[n].text + Context(msgs)) % 4)]]
    IN  CASE kind = 0 -> plain
          [] kind = 1 -> inContext
          [] kind = 2 -> <<[num |-> NoMatch, text |-> 0]>> \o plain
          [] kind = 3 -> IF Len(plain) > 1 THEN SubSeq(plain, 1, Len(plain) - 1) ELSE plain
          [] OTHER -> Append(plain, [num |-> Len(lines), text |-> 4])

\* translate_chunk(context, messages=...): the reply's content
translate_chunk(msgs, kind) == Service(translation_messages(msgs), kind)

ServiceKinds == {0, 1, 2, 3, 4}

\* One document of every length, with texts 0, 1, 2, 0, ... (the service
\* translates the first two alike).
CyclicDoc(n) == [p \in 1..n |-> Entry(p - 1, (p - 1) % 3)]
SessionDocs == {CyclicDoc(n) : n \in 0..MaxLen}

\* Checkpoint holding only the last three messages.
CheckpointTail(idx, chunks, msgs) ==
    [exists |-> TRUE, i |-> idx, translated_chunks |-> chunks,
     messages |-> PyFrom(msgs, 0 - 3)]

\* What joblib.dump writes: i, translated_chunks and the messages list.
Checkpoint(idx, chunks, msgs) ==
    [exists |-> TRUE, i |-> idx, translated_chunks |-> chunks, messages |-> msgs]

InitSession ==
    /\ str_list \in SessionDocs
    /\ chunk_size \in 1..MaxChunk
    /\ overlap \in -1..MaxChunk
    /\ drift \in ServiceKinds
    /\ srt_chunks = <<>>
    /\ pc = "idle" /\ wip_file = NoFile /\ wip = NoFile /\ i = 0
    /\ messages = <<>> /\ translated_chunks = <<>>
    /\ result = NoResult /\ error = "none" /\ translated_srt = NoFile
    /\ requests = <<>> /\ kill_log = <<>> /\ fail_log = <<>> /\ runs = 0
    /\ ChunkOff /\ SegOff

\* Start with the checkpoint loaded only when its first chunk starts with the
\* first entry of the document.
StartChecksStaleness ==
    /\ pc \in {"idle", "done", "failed", "skipped"}
    /\ runs < MaxRuns
    /\ runs' = runs + 1
    /\ i' = 0 /\ messages' = <<>> /\ translated_chunks' = <<>>
    /\ result' = NoResult
    /\ \E skip_existing \in BOOLEAN :
         IF skip_existing /\ translated_srt.exists
         THEN /\ pc' = "skipped" /\ error' = "none" /\ wip' = NoFile
              /\ UNCHANGED srt_chunks
         ELSE IF overlap > chunk_size \/ overlap < 0
         THEN /\ pc' = "failed" /\ error' = "ValueError" /\ wip' = NoFile
              /\ UNCHANGED srt_chunks
         ELSE LET r == split_into_chunks(str_list, chunk_size, overlap)
                  fresh == /\ wip_file.exists
                           /\ str_list # <<>>
                           /\ wip_file.translated_chunks[1][1].start_time
                                = str_list[1].start_time
              IN  /\ wip' = IF fresh THEN wip_file ELSE NoFile
                  /\ srt_chunks' = r.val
                  /\ pc' = IF r.exc = "none" THEN "loop" ELSE "failed"
                  /\ error' = r.exc
    /\ UNCHANGED <<wip_file, translated_srt, requests, kill_log, fail_log>>
    /\ UNCHANGED <<docVars, chunkVars, segVars>>

\* Start that never loads the checkpoint file.
StartIgnoresCheckpoint ==
    /\ pc \in {"idle", "done", "failed", "skipped"}
    /\ runs < MaxRuns
    /\ runs' = runs + 1
    /\ i' = 0 /\ messages' = <<>> /\ translated_chunks' = <<>>
    /\ result' = NoResult
    /\ \E skip_existing \in BOOLEAN :
         IF skip_existing /\ translated_srt.exists
         THEN /\ pc' = "skipped" /\ error' = "none" /\ wip' = NoFile
              /\ UNCHANGED srt_chunks
         ELSE IF overlap > chunk_size \/ overlap < 0
         THEN /\ pc' = "failed" /\ error' = "ValueError" /\ wip' = NoFile
              /\ UNCHANGED srt_chunks
         ELSE LET r == split_into_chunks(str_list, chunk_size, overlap)
              IN  /\ wip' = NoFile
                  /\ srt_chunks' = r.val
                  /\ pc' = IF r.exc = "none" THEN "loop" ELSE "failed"
                  /\ error' = r.exc
    /\ UNCHANGED <<wip_file, translated_srt, requests, kill_log, fail_log>>
    /\ UNCHANGED <<docVars, chunkVars, segVars>>

\* translate(context) up to the first iteration of translate_srt's loop: the
\* skip_existing test, the two checks of overlap, the load of the checkpoint
\* file, split_into_chunks.
Start ==
    /\ pc \in {"idle", "done", "failed", "skipped"}
    /\ runs < MaxRuns
    /\ runs' = runs + 1
    /\ i' = 0 /\ messages' = <<>> /\ translated_chunks' = <<>>
    /\ result' = NoResult
    /\ \E skip_existing \in BOOLEAN :
         IF skip_existing /\ translated_srt.exists
         THEN /\ pc' = "skipped" /\ error' = "none" /\ wip' = NoFile
              /\ UNCHANGED srt_chunks
         ELSE IF overlap > chunk_size \/ overlap < 0
         THEN /\ pc' = "failed" /\ error' = "ValueError" /\ wip' = NoFile
              /\ UNCHANGED srt_chunks
         ELSE LET r == split_into_chunks(str_list, chunk_size, overlap)
              IN  /\ wip' = wip_file
                  /\ srt_chunks' = r.val
                  /\ pc' = IF r.exc = "none" THEN "loop" ELSE "failed"
                  /\ error' = r.exc
    /\ UNCHANGED <<wip_file, translated_srt, requests, kill_log, fail_log>>
    /\ UNCHANGED <<docVars, chunkVars, segVars>>

\* Restore with the conversation left empty.
RestoreForgetsMessages ==
    /\ pc = "loop" /\ i < Len(srt_chunks)
    /\ wip.exists /\ i <= wip.i
    /\ translated_chunks' = wip.translated_chunks
    /\ messages' = <<>>
    /\ i' = i + 1
    /\ UNCHANGED <<pc, wip_file, wip, result, error, translated_srt, requests,
                   kill_log, fail_log, runs>>
    /\ UNCHANGED <<docVars, srt_chunks, chunkVars, segVars>>

\* if wip and i <= wip["i"]: restore translated_chunks and messages; continue
Restore ==
    /\ pc = "loop" /\ i < Len(srt_chunks)
    /\ wip.exists /\ i <= wip.i
    /\ translated_chunks' = wip.translated_chunks
    /\ messages' = wip.messages
    /\ i' = i + 1
    /\ UNCHANGED <<pc, wip_file, wip, result, error, translated_srt, requests,
                   kill_log, fail_log, runs>>
    /\ UNCHANGED <<docVars, srt_chunks, chunkVars, segVars>>

\* Send with the whole conversation in the request.
SendWholeConversation ==
    /\ pc = "loop" /\ i < Len(srt_chunks)
    /\ ~(wip.exists /\ i <= wip.i)
    /\ messages' = messages \o translation_message(concatenate_srt_list(srt_chunks[i + 1]))
    /\ requests' = Append(requests,
          [chunk |-> i, messages |-> translation_messages(messages')])
    /\ pc' = "called"
    /\ UNCHANGED <<wip_file, wip, i, translated_chunks, result, error,
                   translated_srt, kill_log, fail_log, runs>>
    /\ UNCHANGED <<docVars, srt_chunks, chunkVars, segVars>>

\* messages += translation_message(concatenate_srt_list(chunk)); the request
\* translate_chunk(messages=messages[-3:]) goes out.
Send ==
    /\ pc = "loop" /\ i < Len(srt_chunks)
    /\ ~(wip.exists /\ i <= wip.i)
    /\ messages' = messages \o translation_message(concatenate_srt_list(srt_chunks[i + 1]))
    /\ requests' = Append(requests,
          [chunk |-> i, messages |-> translation_messages(PyFrom(messages', 0 - 3))])
    /\ pc' = "called"
    /\ UNCHANGED <<wip_file, wip, i, translated_chunks, result, error,
                   translated_srt, kill_log, fail_log, runs>>
    /\ UNCHANGED <<docVars, srt_chunks, chunkVars, segVars>>

\* ServiceFails with the progress dumped on the way out.
ServiceFailsDumps ==
    /\ pc = "called"
    /\ pc' = "failed"
    /\ error' = "ServiceError"
    /\ fail_log' = Append(fail_log, <<"ServiceError", i>>)
    /\ wip_file' = Checkpoint(i, translated_chunks, messages)
    /\ UNCHANGED <<wip, i, messages, translated_chunks, result,
                   translated_srt, requests, kill_log, runs>>
    /\ UNCHANGED <<docVars, srt_chunks, chunkVars, segVars>>

\* The call of the service raises; translate_srt and translate propagate it.
ServiceFails ==
    /\ pc = "called"
    /\ pc' = "failed"
    /\ error' = "ServiceError"
    /\ fail_log' = Append(fail_log, <<"ServiceError", i>>)
    /\ UNCHANGED <<wip_file, wip, i, messages, translated_chunks, result,
                   translated_srt, requests, kill_log, runs>>
    /\ UNCHANGED <<docVars, srt_chunks, chunkVars, segVars>>

\* Complete with the progress dumped only after the last chunk.
CompleteDumpsAtEnd ==
    /\ pc = "called"
    /\ LET reply == translate_chunk(PyFrom(messages, 0 - 3), drift)
           r == replace_translation(srt_chunks[i + 1], reply)
       IN  IF r.exc # "none"
           THEN /\ pc' = "failed"
                /\ error' = r.exc
                /\ fail_log' = Append(fail_log, <<r.exc, i>>)
                /\ UNCHANGED <<wip_file, i, messages, translated_chunks>>
           ELSE /\ translated_chunks' = Append(translated_chunks, r.val)
                /\ messages' = Append(messages, [role |-> "assistant", content |-> reply])
                /\ wip_file' = IF i + 1 = Len(srt_chunks)
                               THEN Checkpoint(i, translated_chunks', messages')
                               ELSE wip_file
                /\ i' = i + 1
                /\ pc' = "loop"
                /\ UNCHANGED <<error, fail_log>>
    /\ UNCHANGED <<wip, result, translated_srt, requests, kill_log, runs>>
    /\ UNCHANGED <<docVars, srt_chunks, chunkVars, segVars>>

\* The reply arrives: replace_translation, the assistant message, joblib.dump.
Complete ==
    /\ pc = "called"
    /\ LET reply == translate_chunk(PyFrom(messages, 0 - 3), drift)
           r == replace_translation(srt_chunks[i + 1], reply)
       IN  IF r.exc # "none"
           THEN /\ pc' = "failed"
                /\ error' = r.exc
                /\ fail_log' = Append(fail_log, <<r.exc, i>>)
                /\ UNCHANGED <<wip_file, i, messages, translated_chunks>>
           ELSE /\ translated_chunks' = Append(translated_chunks, r.val)
                /\ messages' = Append(messages, [role |-> "assistant", content |-> reply])
                /\ wip_file' = Checkpoint(i, translated_chunks', messages')
                /\ i' = i + 1
                /\ pc' = "loop"
                /\ UNCHANGED <<error, fail_log>>
    /\ UNCHANGED <<wip, result, translated_srt, requests, kill_log, runs>>
    /\ UNCHANGED <<docVars, srt_chunks, chunkVars, segVars>>

\* Return with the checkpoint file unlinked on the way out.
ReturnUnlinks ==
    /\ pc = "loop" /\ i = Len(srt_chunks)
    /\ LET r == join_overlapping_chunks(translated_chunks, overlap)
       IN  IF r.exc # "none"
           THEN /\ pc' = "failed" /\ error' = r.exc /\ UNCHANGED result
           ELSE /\ pc' = "returned" /\ result' = r /\ UNCHANGED error
    /\ wip_file' = IF join_overlapping_chunks(translated_chunks, overlap).exc = "none"
                   THEN NoFile ELSE wip_file
    /\ UNCHANGED <<wip, i, messages, translated_chunks, translated_srt,
                   requests, kill_log, fail_log, runs>>
    /\ UNCHANGED <<docVars, srt_chunks, chunkVars, segVars>>

\* return join_overlapping_chunks(translated_chunks, overlap)
Return ==
    /\ pc = "loop" /\ i = Len(srt_chunks)
    /\ LET r == join_overlapping_chunks(translated_chunks, overlap)
       IN  IF r.exc # "none"
           THEN /\ pc' = "failed" /\ error' = r.exc /\ UNCHANGED result
           ELSE /\ pc' = "returned" /\ result' = r /\ UNCHANGED error
    /\ UNCHANGED <<wip_file, wip, i, messages, translated_chunks, translated_srt,
                   requests, kill_log, fail_log, runs>>
    /\ UNCHANGED <<docVars, srt_chunks, chunkVars, segVars>>

\* srt_dump(srt_list=srt_list, srt_filename=context.translated_srt_path)
Dump ==
    /\ pc = "returned"
    /\ translated_srt' = [exists |-> TRUE, srt_list |-> result.val]
    /\ pc' = "done"
    /\ UNCHANGED <<wip_file, wip, i, messages, translated_chunks, result, error,
                   requests, kill_log, fail_log, runs>>
    /\ UNCHANGED <<docVars, srt_chunks, chunkVars, segVars>>

\* The process is killed: what it held in memory is gone, the files stay.
Kill ==
    /\ pc \in {"loop", "called", "returned"}
    /\ kill_log' = Append(kill_log, <<pc, i>>)
    /\ pc' = "idle"
    /\ i' = 0 /\ messages' = <<>> /\ translated_chunks' = <<>>
    /\ wip' = NoFile /\ result' = NoResult
    /\ UNCHANGED <<wip_file, error, translated_srt, requests, fail_log, runs>>
    /\ UNCHANGED <<docVars, srt_chunks, chunkVars, segVars>>

Next ==
    \/ Start
    \/ Restore
    \/ Send
    \/ ServiceFails
    \/ Complete
    \/ Return
    \/ Dump
    \/ Kill

Spec == InitSession /\ [][Next]_vars

\* Between two runs, with a checkpoint on disk, the subtitle file is replaced
\* by one without its first block (the checkpoint file, keyed by the path
\* alone, stays).
EditDocument ==
    /\ pc \in {"idle", "done", "failed", "skipped"}
    /\ wip_file.exists
    /\ str_list # <<>> /\ str_list[1].start_time = 0
    /\ str_list' = Tail(str_list)
    /\ UNCHANGED <<chunk_size, overlap, drift, srt_chunks>>
    /\ UNCHANGED <<chunkVars, sessionVars, segVars>>

NextStale ==
    \/ Next
    \/ EditDocument

SpecStale == InitSession /\ [][NextStale]_vars

---------------------------------------------------------------------------
(* The run of translate_srt that nothing interrupts, from no checkpoint. *)

RECURSIVE OnePassLoop(_, _, _, _, _)
\* The for loop of translate_srt with wip = None, over the chunks left.
OnePassLoop(chunks, msgs, done, ov, kind) ==
    IF chunks = <<>>
    THEN join_overlapping_chunks(done, ov)
    ELSE LET asked == msgs \o translation_message(concatenate_srt_list(Head(chunks)))
             reply == translate_chunk(PyFrom(asked, 0 - 3), kind)
             r == replace_translation(Head(chunks), reply)
         IN  IF r.exc # "none"
             THEN r
             ELSE OnePassLoop(Tail(chunks),
                              Append(asked, [role |-> "assistant", content |-> reply]),
                              Append(done, r.val), ov, kind)

OnePass(doc, size, ov, kind) ==
    IF ov > size \/ ov < 0
    THEN Raise("ValueError")
    ELSE LET r == split_into_chunks(doc, size, ov)
         IN  IF r.exc # "none" THEN r ELSE OnePassLoop(r.val, <<>>, <<>>, ov, kind)

---------------------------------------------------------------------------
(* Claims about the translation session. *)

SentCount(c) == Cardinality({n \in 1..Len(requests) : requests[n].chunk = c})
InFlightKills(c) == Cardinality({n \in 1..Len(kill_log) : kill_log[n] = <<"called", c>>})
Failures(c) == Cardinality({n \in 1..Len(fail_log) : fail_log[n][2] = c})

\* The index of the first chunk the checkpoint file does not hold.
NextOnFile == IF wip_file.exists THEN wip_file.i + 1 ELSE 0

\* C2: with a deterministic service, a run of translate_srt that completes
\* after any kills (in particular a kill right after chunk k's checkpoint was
\* written, for any k) returns, and translate dumps, the document that the
\* uninterrupted run from no checkpoint returns.
C2_ResumeEquivalence ==
    /\ pc \in {"returned", "done"} =>
         result = OnePass(str_list, chunk_size, overlap, drift)
    /\ pc = "done" =>
         translated_srt.srt_list = OnePass(str_list, chunk_size, overlap, drift).val

\* The second run completed after the first was killed right after the
\* checkpoint of a chunk was written, the service answering in context and
\* the document being split in three or more chunks.
C2_Witness ==
    /\ pc = "returned" /\ runs = 2 /\ drift = 1
    /\ Len(srt_chunks) >= 3 /\ overlap >= 2
    /\ Len(kill_log) = 1
    /\ kill_log[1][1] = "loop" /\ kill_log[1][2] >= 1
    /\ kill_log[1][2] < Len(srt_chunks)
    /\ fail_log = <<>>

\* C4: the checkpoint is written after every translated chunk: the chunk in
\* flight is always the first one the checkpoint file does not hold, so a
\* chunk is sent again only after a kill (or a failed run) that hit it in
\* flight, at most once per such kill, and without failed runs the service is
\* called at most (number of chunks + number of kills) times.
C4_AtMostOneResendPerKill ==
    /\ pc = "called" => i = NextOnFile
    /\ (pc = "loop" /\ i > 0) => (wip_file.exists /\ wip_file.i >= i - 1)
    /\ \A c \in 0..(Len(srt_chunks) - 1) :
          SentCount(c) <= 1 + InFlightKills(c) + Failures(c)
    /\ fail_log = <<>> => Len(requests) <= Len(srt_chunks) + Len(kill_log)

\* A run completed after two kills, one of which hit a chunk in flight: that
\* chunk was sent twice, every other chunk once.
C4_Witness ==
    /\ pc = "done" /\ fail_log = <<>> /\ Len(kill_log) = 2
    /\ Len(srt_chunks) >= 3
    /\ Len(requests) = Len(srt_chunks) + 1
    /\ \E c \in 1..(Len(srt_chunks) - 1) :
          SentCount(c) = 2 /\ InFlightKills(c) = 1

\* C5: a run that starts while a checkpoint file exists loads it whatever the
\* document now is; it sends no chunk with index <= the checkpoint's i, and
\* up to the first request the translated chunks and the conversation are
\* those of the checkpoint (the request adds only the new user message).
C5_ResumeFromCheckpoint ==
    /\ (pc = "loop" /\ i = 0) => wip = wip_file
    /\ (pc = "called" /\ wip.exists) => i > wip.i
    /\ (pc = "loop" /\ wip.exists /\ 0 < i /\ i <= wip.i + 1) =>
          /\ wip_file = wip
          /\ translated_chunks = wip.translated_chunks
          /\ messages = wip.messages
    /\ (pc = "called" /\ wip.exists /\ i = wip.i + 1) =>
          /\ wip_file = wip
          /\ translated_chunks = wip.translated_chunks
          /\ messages = wip.messages
                \o translation_message(concatenate_srt_list(srt_chunks[i + 1]))
          /\ requests[Len(requests)] =
                [chunk |-> i,
                 messages |-> translation_messages(PyFrom(messages, 0 - 3))]

\* A run resumed from a checkpoint that was written for another document (the
\* restored first chunk starts with an entry the document no longer has) and
\* sent its first request.
C5_Witness ==
    /\ pc = "called" /\ wip.exists /\ i = wip.i + 1
    /\ str_list # <<>>
    /\ wip.translated_chunks[1][1].start_time # str_list[1].start_time
    /\ translated_chunks = wip.translated_chunks

\* C6: when the service call for chunk i fails, translate_srt returns nothing,
\* no step of the run up to and including the failure writes the translated
\* subtitle file, the failure leaves the checkpoint file as it was, which is
\* the checkpoint written after chunk i - 1 (none for i = 0), and the next
\* request any later run makes is for chunk i.
C6_FailureKeepsCheckpoint ==
    /\ []((pc = "failed" /\ error = "ServiceError") =>
            /\ result = NoResult
            /\ i = NextOnFile
            /\ i = 0 => ~wip_file.exists
            /\ i > 0 =>
                 /\ wip_file.exists /\ wip_file.i = i - 1
                 /\ wip_file.translated_chunks = translated_chunks
                 /\ Len(translated_chunks) = i
                 /\ wip_file.messages = SubSeq(messages, 1, Len(messages) - 1))
    /\ [](pc = "called" => i = NextOnFile)
    /\ [][(pc = "called" /\ pc' = "failed") =>
            (wip_file' = wip_file /\ translated_srt' = translated_srt
             /\ result' = NoResult)]_vars
    /\ [][pc' \in {"loop", "called", "failed"} => translated_srt' = translated_srt]_vars

\* The service call failed for a chunk after the first; the checkpoint file
\* holds the chunks before it.
C6_Witness ==
    /\ pc = "failed" /\ error = "ServiceError"
    /\ i >= 1 /\ wip_file.exists /\ wip_file.i = i - 1
    /\ ~translated_srt.exists

\* The lines of the user prompt of request n.
PromptLines(n) == requests[n].messages[Len(requests[n].messages)].content

\* The reply keeps every line and index of the chunk it answers.
ExactReply(reply, chunk) ==
    /\ Len(reply) = Len(chunk)
    /\ \A x \in 1..Len(reply) : reply[x].num = x - 1

\* C16 (the claim as stated): when the reply to a chunk arrives and does not
\* keep line count and indices exactly, the chunk still becomes a translated
\* chunk, its checkpoint is written and the run goes on.
C16_InexactReplyTolerated ==
    [][(/\ pc = "called"
        /\ pc' # "idle"
        /\ ~(pc' = "failed" /\ error' = "ServiceError")
        /\ ~ExactReply(translate_chunk(PyFrom(messages, 0 - 3), drift), srt_chunks[i + 1]))
       => /\ pc' = "loop"
          /\ Len(translated_chunks') = Len(translated_chunks) + 1
          /\ wip_file' = Checkpoint(i, translated_chunks', messages')]_vars

\* C18 (the claim as stated): every line of a request's prompt carries the
\* position of its entry in the document (the start_time of an entry of these
\* documents is its position).
C18_LinesCarryDocumentIndex ==
    pc = "called" =>
        LET chunk == srt_chunks[i + 1]
            lines == PromptLines(Len(requests))
        IN  /\ Len(lines) = Len(chunk)
            /\ \A x \in 1..Len(chunk) : lines[x].num = chunk[x].start_time

\* C18 (amended): every line of a request's prompt carries the position of
\* its entry inside the chunk, from 0, so the first line of every chunk is
\* numbered 0; and a reply line numbered m replaces the text of the chunk's
\* entry at position m, nothing else of the chunk changing.
C18_LinesCarryChunkIndex ==
    /\ [](pc = "called" =>
            LET chunk == srt_chunks[i + 1]
                lines == PromptLines(Len(requests))
            IN  /\ requests[Len(requests)].chunk = i
                /\ Len(lines) = Len(chunk)
                /\ \A x \in 1..Len(chunk) :
                      /\ lines[x].num = x - 1
                      /\ lines[x].text = chunk[x].text)
    /\ [][(pc = "called" /\ pc' = "loop")
          => LET reply == messages'[Len(messages')].content
                 chunk == srt_chunks[i + 1]
                 new == translated_chunks'[Len(translated_chunks')]
             IN  /\ Len(new) = Len(chunk)
                 /\ \A x \in 1..Len(reply) :
                       new[reply[x].num + 1].text = word_wrap(reply[x].text)
                 /\ \A y \in 1..Len(chunk) :
                       /\ new[y].start_time = chunk[y].start_time
                       /\ new[y].end_time = chunk[y].end_time
                       /\ (\A x \in 1..Len(reply) : reply[x].num # y - 1)
                             => new[y] = chunk[y]]_vars

\* The second chunk, which starts at document position 1 or later, was sent
\* with its first line numbered 0, and its reply was matched back.
C18_Witness ==
    /\ pc = "loop" /\ i = 2 /\ Valid /\ Len(translated_chunks) = 2
    /\ \E n \in 1..Len(requests) :
          /\ requests[n].chunk = 1
          /\ PromptLines(n)[1].num = 0
          /\ srt_chunks[2][1].start_time >= 1
    /\ translated_chunks[2][1].text # srt_chunks[2][1].text

\* C19 (the claim as stated): the checkpoint file holds at most three
\* messages, however many chunks were translated.
C19_CheckpointKeepsThreeMessages ==
    wip_file.exists =>
        /\ wip_file.i = Len(wip_file.translated_chunks) - 1
        /\ Len(wip_file.messages) <= 3

\* C19 (amended): the checkpoint written after chunk i holds i, the
\* translated chunks 0..i in order, and the whole conversation so far: the
\* user prompt and the reply of every chunk 0..i, 2 * (i + 1) messages, two
\* more with every chunk translated.
C19_CheckpointKeepsConversation ==
    wip_file.exists =>
        /\ wip_file.i + 1 = Len(wip_file.translated_chunks)
        /\ wip_file.i < Len(srt_chunks)
        /\ \A c \in 1..(wip_file.i + 1) :
              /\ Len(wip_file.translated_chunks[c]) = Len(srt_chunks[c])
              /\ wip_file.translated_chunks[c][1].start_time
                    = srt_chunks[c][1].start_time
        /\ Len(wip_file.messages) = 2 * (wip_file.i + 1)
        /\ \A c \in 1..(wip_file.i + 1) :
              /\ wip_file.messages[2 * c - 1].role = "user"
              /\ wip_file.messages[2 * c - 1].content[1].text = srt_chunks[c][1].text
              /\ wip_file.messages[2 * c].role = "assistant"

\* A checkpoint written after the third chunk, by a run that resumed from the
\* checkpoint of the first: six messages on file.
C19_Witness ==
    /\ wip_file.exists /\ wip_file.i = 2
    /\ Len(wip_file.messages) = 6
    /\ wip.exists /\ wip.i = 0
    /\ pc = "loop"

\* C20: every request, at the moment it is made, is the system instruction followed by the last (at
\* most 3) messages of the conversation: for chunk 0 its user prompt alone,
\* for chunk c > 0, also right after a resume, the user prompt of chunk c - 1,
\* the reply the service gave to chunk c - 1, and the user prompt of chunk c.
C20_RequestIsLastThree ==
    pc = "called" =>
        LET msgs == requests[Len(requests)].messages
            prompt(j) == translation_message(concatenate_srt_list(srt_chunks[j + 1]))[1]
        IN  /\ requests[Len(requests)].chunk = i
            /\ msgs[1] = translation_messages(<<>>)[1]
            /\ Len(msgs) <= 4
            /\ i = 0 => msgs = translation_messages(<<prompt(0)>>)
            /\ i > 0 =>
                 /\ Len(msgs) = 4
                 /\ msgs[2] = prompt(i - 1)
                 /\ msgs[3].role = "assistant"
                 /\ \E m \in 1..(Len(requests) - 1) :
                       /\ requests[m].chunk = i - 1
                       /\ msgs[3].content = Service(requests[m].messages, drift)
                 /\ msgs[4] = prompt(i)

\* The first request of a run that resumed from the checkpoint of the second
\* chunk after a kill: the request for the third chunk, with three messages
\* of a conversation that holds five.
C20_Witness ==
    /\ pc = "called" /\ runs = 2 /\ Len(kill_log) = 1
    /\ wip.exists /\ wip.i = 1 /\ i = 2
    /\ Len(messages) = 5
    /\ Len(requests[Len(requests)].messages) = 4

\* C23: on one document, through any kills, failures and resumes, the
\* checkpoint file changes only when a chunk completes; the first write is
\* that of chunk 0, every later write stores the index after the one on
\* file, so the index never decreases, and every write stores index + 1
\* translated chunks.
C23_CheckpointMonotone ==
    [][wip_file' # wip_file
       => /\ pc = "called" /\ pc' = "loop"
          /\ wip_file'.exists
          /\ wip_file'.i = (IF wip_file.exists THEN wip_file.i + 1 ELSE 0)
          /\ wip_file'.i = i
          /\ Len(wip_file'.translated_chunks) = wip_file'.i + 1]_vars

\* A run that resumed after a kill from the checkpoint of the second chunk
\* has written the checkpoint of the third.
C23_Witness ==
    /\ pc = "loop" /\ i = 3 /\ wip_file.exists /\ wip_file.i = 2
    /\ wip.exists /\ wip.i = 1
    /\ Len(kill_log) = 1 /\ fail_log = <<>>

\* C24: no step removes the checkpoint file; after translate_srt returns for
\* a document of one or more chunks the file is there, holding the last
\* chunk; a run started on such a file sends nothing to the service, and
\* what it returns is the document the earlier run returned and dumped.
C24_CheckpointOutlivesCompletion ==
    /\ [][wip_file.exists => wip_file'.exists]_vars
    /\ []((pc \in {"returned", "done"} /\ srt_chunks # <<>>)
            => (wip_file.exists /\ wip_file.i = Len(srt_chunks) - 1))
    /\ [][(pc = "loop" /\ wip.exists /\ wip.i = Len(srt_chunks) - 1)
          => (requests' = requests /\ pc' # "called")]_vars
    /\ []((pc = "returned" /\ translated_srt.exists)
            => result.val = translated_srt.srt_list)

\* The second run on a document whose first run completed undisturbed has
\* returned: one request per chunk in all, none of them from this run.
C24_Witness ==
    /\ pc = "returned" /\ runs = 2
    /\ kill_log = <<>> /\ fail_log = <<>>
    /\ wip.exists /\ wip.i = Len(srt_chunks) - 1
    /\ Len(srt_chunks) >= 2 /\ Len(requests) = Len(srt_chunks)
    /\ translated_srt.exists /\ result.val = translated_srt.srt_list

---------------------------------------------------------------------------
(* AudioSegmenter: get_sub_max_segments, recombine_segments,                *)
(* concat_audio_segments. Sizes and the cap are in one unit (bytes in the   *)
(* code, where the cap is 24.5 * 1024**2).                                  *)

MaxSegments == 4     \* most split files
MaxSize == 5         \* largest split file

\* The caps the model runs with.
Caps == {3, 4}

RECURSIVE GroupLoopKeepsSum(_, _, _, _, _, _)
\* GroupLoop with current_sum not restarted from the segment that opens a group.
GroupLoopKeepsSum(sizes, cap, n, current_sum, groups, current_group) ==
    IF n > Len(sizes)
    THEN Ok(IF current_group # <<>> THEN Append(groups, current_group) ELSE groups)
    ELSE IF sizes[n] > cap
    THEN Raise("SegmentTooLongError")
    ELSE IF current_sum + sizes[n] > cap
    THEN GroupLoopKeepsSum(sizes, cap, n + 1, 0,
                           Append(groups, current_group), <<n - 1>>)
    ELSE GroupLoopKeepsSum(sizes, cap, n + 1, current_sum + sizes[n],
                           groups, Append(current_group, n - 1))

RECURSIVE GroupLoopNoCheck(_, _, _, _, _, _)
\* GroupLoop without the test of the segment's own size.
GroupLoopNoCheck(sizes, cap, n, current_sum, groups, current_group) ==
    IF n > Len(sizes)
    THEN Ok(IF current_group # <<>> THEN Append(groups, current_group) ELSE groups)
    ELSE IF current_sum + sizes[n] > cap
    THEN GroupLoopNoCheck(sizes, cap, n + 1, sizes[n],
                          Append(groups, current_group), <<n - 1>>)
    ELSE GroupLoopNoCheck(sizes, cap, n + 1, current_sum + sizes[n],
                          groups, Append(current_group, n - 1))

RECURSIVE GroupLoopClosesEarly(_, _, _, _, _, _)
\* GroupLoop that closes a group as soon as it would be filled to the cap.
GroupLoopClosesEarly(sizes, cap, n, current_sum, groups, current_group) ==
    IF n > Len(sizes)
    THEN Ok(IF current_group # <<>> THEN Append(groups, current_group) ELSE groups)
    ELSE IF sizes[n] > cap
    THEN Raise("SegmentTooLongError")
    ELSE IF current_sum + sizes[n] >= cap /\ current_group # <<>>
    THEN GroupLoopClosesEarly(sizes, cap, n + 1, sizes[n],
                   Append(groups, current_group), <<n - 1>>)
    ELSE GroupLoopClosesEarly(sizes, cap, n + 1, current_sum + sizes[n],
                   groups, Append(current_group, n - 1))

RECURSIVE GroupLoop(_, _, _, _, _, _)
\* The for loop of get_sub_max_segments from segment n - 1 on, and what follows it.
GroupLoop(sizes, cap, n, current_sum, groups, current_group) ==
    IF n > Len(sizes)
    THEN Ok(IF current_group # <<>> THEN Append(groups, current_group) ELSE groups)
    ELSE IF sizes[n] > cap
    THEN Raise("SegmentTooLongError")
    ELSE IF current_sum + sizes[n] > cap
    THEN GroupLoop(sizes, cap, n + 1, sizes[n],
                   Append(groups, current_group), <<n - 1>>)
    ELSE GroupLoop(sizes, cap, n + 1, current_sum + sizes[n],
                   groups, Append(current_group, n - 1))

\* get_sub_max_segments, on the sizes get_segment_sizes read
get_sub_max_segments(sizes, cap) == GroupLoop(sizes, cap, 1, 0, <<>>, <<>>)

\* ffmpeg's output is a sequence of lines in the order written; a line goes
\* to the tool's stdout or, as a diagnostic, to its stderr, and reports the
\* start of a silence (silence_start > 0) or nothing of the kind (0).
Line(stream, silence_start) == [stream |-> stream, silence_start |-> silence_start]

\* What communicate() returns for a stream: None when Popen made no pipe for
\* it, the lines read from the pipe otherwise.
None == [piped |-> FALSE, lines |-> <<>>]
Piped(lines) == [piped |-> TRUE, lines |-> lines]

\* Python's truth value of None or a string of lines.
Truthy(output) == output.piped /\ output.lines # <<>>

\* Popen(command, stdout=PIPE, stderr=STDOUT).communicate(): the tool's
\* stderr is its stdout pipe, so everything written arrives as stdout_output
\* and stderr_output is None.
communicate(written) == [stdout_output |-> Piped(written), stderr_output |-> None]

\* What ffmpeg writes while it merges a cluster.
ToolOutputs == {<<>>, <<Line("stderr", 0)>>, <<Line("stdout", 0), Line("stderr", 0)>>}

\* concat_audio_segments with the cleanup of the input files before the
\* checks of the tool's result.
concat_audio_segments_cleans_first(input_files, files, rc, written) ==
    LET out == communicate(written)
    IN  [exc |-> IF Truthy(out.stderr_output) \/ rc # 0
                 THEN "AudioParseError" ELSE "none",
         split_files |-> files \ input_files,
         concat_files |-> FALSE]

\* concat_audio_segments on the split files `files`, ffmpeg writing `written`
\* and exiting with rc: the exception raised, the split files and the file
\* list on disk afterwards.  The list is written, ffmpeg runs, the list is
\* unlinked, the result is checked, and then the input files are unlinked.
concat_audio_segments(input_files, files, rc, written) ==
    LET out == communicate(written)
    IN  IF Truthy(out.stderr_output) \/ rc # 0
        THEN [exc |-> "AudioParseError", split_files |-> files,
              concat_files |-> FALSE]
        ELSE [exc |-> "none", split_files |-> files \ input_files,
              concat_files |-> FALSE]

\* Boundaries for n split files: n - 1 increasing times.
Boundaries(n) == [j \in 1..(n - 1) |-> 3 * j + (j % 2)]

InitSeg ==
    /\ \E n \in 1..MaxSegments :
          /\ segment_sizes \in [1..n -> 0..MaxSize]
          /\ segments = Boundaries(n)
          /\ split_files = 0..(n - 1)
    /\ max_clip_size \in Caps
    /\ spc = "start" /\ segment_groups = <<>> /\ recombined = <<>>
    /\ seg_error = "none" /\ concat_files = FALSE /\ returncode = 0
    /\ str_list = <<>> /\ chunk_size = 1 /\ overlap = 0 /\ drift = 0
    /\ srt_chunks = <<>>
    /\ ChunkOff /\ SessionOff /\ TransOff /\ SrtOff /\ ReplyOff /\ DetectOff

\* segment_groups = get_sub_max_segments(context, len(segments) + 1)
Group ==
    /\ spc = "start"
    /\ LET r == get_sub_max_segments(SubSeq(segment_sizes, 1, Len(segments) + 1),
                                     max_clip_size)
       IN  /\ segment_groups' = r.val
           /\ seg_error' = r.exc
           /\ spc' = IF r.exc = "none" THEN "concat" ELSE "error"
    /\ UNCHANGED <<segment_sizes, max_clip_size, segments, split_files, recombined,
                   concat_files, returncode>>
    /\ UNCHANGED <<docVars, srt_chunks, chunkVars, sessionVars, transVars, srtVars, replyVars>>
    /\ UNCHANGED detectVars

\* Concat with the start time of the group's last segment.
ConcatStartsAtLastSegment ==
    /\ spc = "concat"
    /\ Len(recombined) < Len(segment_groups)
    /\ LET group == segment_groups[Len(recombined) + 1]
           start_times == <<0>> \o segments
       IN  \E rc \in {0, 1}, written \in ToolOutputs :
             LET r == concat_audio_segments({group[n] : n \in 1..Len(group)},
                                            split_files, rc, written)
             IN  /\ returncode' = rc
                 /\ split_files' = r.split_files
                 /\ concat_files' = r.concat_files
                 /\ seg_error' = r.exc
                 /\ IF r.exc # "none"
                    THEN /\ spc' = "error"
                         /\ UNCHANGED recombined
                    ELSE /\ recombined' = Append(recombined,
                               [cluster |-> Len(recombined), inputs |-> group,
                                start |-> start_times[group[Len(group)] + 1]])
                         /\ UNCHANGED spc
    /\ UNCHANGED <<segment_sizes, max_clip_size, segments, segment_groups>>
    /\ UNCHANGED <<docVars, srt_chunks, chunkVars, sessionVars, transVars, srtVars, replyVars>>
    /\ UNCHANGED detectVars

\* The next element of recombine_segments's list: concat_audio_segments on the
\* next group, ffmpeg exiting with returncode, and the start time of the
\* group's first segment.
Concat ==
    /\ spc = "concat"
    /\ Len(recombined) < Len(segment_groups)
    /\ LET group == segment_groups[Len(recombined) + 1]
           start_times == <<0>> \o segments
       IN  \E rc \in {0, 1}, written \in ToolOutputs :
             LET r == concat_audio_segments({group[n] : n \in 1..Len(group)},
                                            split_files, rc, written)
             IN  /\ returncode' = rc
                 /\ split_files' = r.split_files
                 /\ concat_files' = r.concat_files
                 /\ seg_error' = r.exc
                 /\ IF r.exc # "none"
                    THEN /\ spc' = "error"
                         /\ UNCHANGED recombined
                    ELSE /\ recombined' = Append(recombined,
                               [cluster |-> Len(recombined), inputs |-> group,
                                start |-> start_times[group[1] + 1]])
                         /\ UNCHANGED spc
    /\ UNCHANGED <<segment_sizes, max_clip_size, segments, segment_groups>>
    /\ UNCHANGED <<docVars, srt_chunks, chunkVars, sessionVars, transVars, srtVars, replyVars>>
    /\ UNCHANGED detectVars

\* recombine_segments returns its list.
Recombined ==
    /\ spc = "concat"
    /\ Len(recombined) = Len(segment_groups)
    /\ spc' = "done"
    /\ UNCHANGED <<segment_sizes, max_clip_size, segments, split_files,
                   segment_groups, recombined, seg_error, concat_files, returncode>>
    /\ UNCHANGED <<docVars, srt_chunks, chunkVars, sessionVars, transVars, srtVars, replyVars>>
    /\ UNCHANGED detectVars

NextSeg ==
    \/ Group
    \/ Concat
    \/ Recombined

SpecSeg == InitSeg /\ [][NextSeg]_vars

---------------------------------------------------------------------------
(* Claims about the audio segmenter, checked under SpecSeg. *)

RECURSIVE SumOf(_, _)
\* The summed size of the segments of a group.
SumOf(group, sizes) ==
    IF group = <<>> THEN 0 ELSE sizes[Head(group) + 1] + SumOf(Tail(group), sizes)

Oversized == {n \in 1..Len(segment_sizes) : segment_sizes[n] > max_clip_size}

\* C3: when every segment's size is <= the cap, get_sub_max_segments returns
\* clusters whose summed sizes are each <= the cap and which, concatenated in
\* order, are exactly the indices 0..n-1; sizes 10, 10, 10, 1 with cap 20.5
\* (here in halves: 20, 20, 20, 2 and 41) give the clusters [0,1] and [2,3].
C3_ClustersUnderCap ==
    /\ (spc # "start" /\ Oversized = {}) =>
          /\ seg_error # "SegmentTooLongError"
          /\ \A g \in 1..Len(segment_groups) :
                /\ segment_groups[g] # <<>>
                /\ SumOf(segment_groups[g], segment_sizes) <= max_clip_size
          /\ Flatten(segment_groups) = [n \in 1..Len(segment_sizes) |-> n - 1]
    /\ get_sub_max_segments(<<20, 20, 20, 2>>, 41) = Ok(<<<<0, 1>>, <<2, 3>>>>)

\* Four segments, none over the cap, were grouped into several clusters, one
\* of them of two or more segments.
C3_Witness ==
    /\ spc = "concat" /\ Oversized = {}
    /\ Len(segment_sizes) >= 4 /\ Len(segment_groups) >= 2
    /\ \E g \in 1..Len(segment_groups) : Len(segment_groups[g]) >= 2

\* C7: when some segment's own size exceeds the cap, wherever it is in the
\* list, get_sub_max_segments raises SegmentTooLongError, and recombine_segments
\* ends there: no cluster is concatenated, no split file is deleted, and
\* nothing is done afterwards (no re-splitting).
C7_OversizedSegmentIsFatal ==
    (spc # "start" /\ Oversized # {}) =>
        /\ spc = "error" /\ seg_error = "SegmentTooLongError"
        /\ segment_groups = <<>> /\ recombined = <<>>
        /\ split_files = 0..(Len(segment_sizes) - 1)
        /\ ~ENABLED NextSeg

\* Grouping raised for a list whose only oversized segment is the last one,
\* after segments that fit.
C7_Witness ==
    /\ spc = "error" /\ seg_error = "SegmentTooLongError"
    /\ Len(segment_sizes) >= 3
    /\ Oversized = {Len(segment_sizes)}

RECURSIVE SumRange(_, _, _)
\* The summed size of segments a..b (numbered from 1).
SumRange(sizes, a, b) == IF a > b THEN 0 ELSE sizes[a] + SumRange(sizes, a + 1, b)

\* Cutting the segments after each position in cuts leaves every group of
\* neighbours with a summed size <= the cap.
CutsFit(cuts, sizes, cap) ==
    LET n == Len(sizes)
    IN  \A a \in cuts \cup {0} :
            LET b == CHOOSE x \in (cuts \cup {n}) :
                        x > a /\ \A y \in (cuts \cup {n}) : y > a => x <= y
            IN  SumRange(sizes, a + 1, b) <= cap

\* C17: when every segment's size is <= the cap, no way of cutting the list
\* of segments into groups of neighbours, each of summed size <= the cap,
\* has fewer groups than get_sub_max_segments returned.
C17_FewestClusters ==
    (spc # "start" /\ Oversized = {} /\ segment_sizes # <<>>) =>
        \A cuts \in SUBSET (1..(Len(segment_sizes) - 1)) :
            CutsFit(cuts, segment_sizes, max_clip_size)
                => Cardinality(cuts) + 1 >= Len(segment_groups)

\* Four segments were grouped into two clusters, the first filled exactly to
\* the cap, where cutting after every segment would fit as well.
C17_Witness ==
    /\ spc = "concat" /\ Oversized = {}
    /\ Len(segment_sizes) = 4 /\ Len(segment_groups) = 2
    /\ SumOf(segment_groups[1], segment_sizes) = max_clip_size
    /\ Len(segment_groups[1]) >= 2
    /\ CutsFit({1, 2, 3}, segment_sizes, max_clip_size)

\* C25: every cluster recombine_segments returns starts at 0 when its first
\* segment is segment 0 and otherwise at the boundary just before its first
\* segment (the s-th boundary for first segment s); the first cluster starts
\* at 0, the clusters come in segment order, numbered from 0, and their
\* start times increase strictly.
C25_ClusterStartOffsets ==
    /\ \A c \in 1..Len(recombined) :
          LET s == recombined[c].inputs[1]
          IN  /\ recombined[c].cluster = c - 1
              /\ recombined[c].inputs = segment_groups[c]
              /\ recombined[c].start = IF s = 0 THEN 0 ELSE segments[s]
    /\ recombined # <<>> => recombined[1].start = 0
    /\ \A c \in 1..(Len(recombined) - 1) :
          /\ recombined[c].inputs[1] < recombined[c + 1].inputs[1]
          /\ recombined[c].start < recombined[c + 1].start

\* Two clusters were returned, the second made of two or more segments and
\* starting at a boundary that is not the first.
C25_Witness ==
    /\ spc = "done" /\ Len(recombined) = 2
    /\ Len(recombined[2].inputs) >= 2
    /\ recombined[2].inputs[1] >= 2
    /\ recombined[2].start = segments[recombined[2].inputs[1]]

\* The split files of cluster c (from 1).
ClusterFiles(c) == {segment_groups[c][n] : n \in 1..Len(segment_groups[c])}

\* C31: concat_audio_segments deletes a cluster's split files only after the
\* cluster's merge succeeded: the files of every merged cluster are gone and
\* those of every other cluster are all on disk; a merge that fails (ffmpeg
\* exits non-zero) raises AudioParseError and leaves the cluster unmerged
\* with all its files in place; and the file list is off the disk after the
\* call in both cases.
C31_CleanupOnlyAfterMerge ==
    (spc \in {"concat", "done"} \/ (spc = "error" /\ seg_error = "AudioParseError"))
        => /\ concat_files = FALSE
           /\ \A c \in 1..Len(segment_groups) :
                 IF c <= Len(recombined)
                 THEN ClusterFiles(c) \cap split_files = {}
                 ELSE ClusterFiles(c) \subseteq split_files
           /\ returncode # 0 <=> (spc = "error" /\ seg_error = "AudioParseError")
           /\ returncode # 0 => Len(recombined) < Len(segment_groups)

\* The first cluster was merged and its files deleted; the merge of the
\* second, a cluster of two or more files, failed.
C31_Witness ==
    /\ spc = "error" /\ seg_error = "AudioParseError" /\ returncode # 0
    /\ Len(recombined) = 1 /\ Len(segment_groups) >= 2
    /\ Len(segment_groups[2]) >= 2
    /\ ClusterFiles(1) \cap split_files = {}
    /\ ClusterFiles(2) \subseteq split_files
    /\ concat_files = FALSE

---------------------------------------------------------------------------
(* Transcription of an oversized asset: transcribe_audio's loop over the    *)
(* clusters and transcribe_file (src/subverses/transcribe.py).  A transcript *)
(* is a sequence of subs [index, start, end]; times are whole numbers.  The  *)
(* text of a sub is left out: no step here reads it.                        *)

MaxClusters == 3     \* most clusters split_audio returns
MaxGap == 2          \* longest cluster, in time units

Sub(index, a, b) == [index |-> index, start |-> a, end |-> b]

\* What the service can return for a cluster, in cluster-local time: an SRT
\* text of its own, its subs numbered from 1.
Transcripts == {<<Sub(1, 0, 1)>>, <<Sub(1, 0, 2), Sub(2, 2, 3)>>}

SrtFile(subs) == [exists |-> TRUE, subs |-> subs]

RECURSIVE SumTo(_, _)
SumTo(g, n) == IF n = 0 THEN 0 ELSE g[n] + SumTo(g, n - 1)

\* The start times split_audio can return: the first cluster starts at 0.0
\* (start_times[0]), every later one after the clusters before it.
Splits ==
    UNION {{[c \in 1..n |-> SumTo(g, c - 1)] : g \in [1..n -> 1..MaxGap]} :
              n \in 1..MaxClusters}

\* subs.shift(seconds=shift)
shift_subtitles(subs, shift) ==
    [x \in 1..Len(subs) |->
        Sub(subs[x].index, subs[x].start + shift, subs[x].end + shift)]

\* shift_subtitles(subs_file.read(), segment_offset)
_transcribed_file(file, segment_offset) == shift_subtitles(file.subs, segment_offset)

\* ReadsBack with the force flag deciding for the clusters below the resume
\* point as well.
ReadsBackUnlessForced(no, n, force, exists) ==
    (no < n /\ ~force) \/ (exists /\ ~force)

\* The two tests of transcribe_file that return the file's transcript:
\* segment_no < start_transcription_segment, or the file exists and the
\* force flag is not set.
ReadsBack(no, n, force, exists) ==
    no < n \/ (exists /\ ~force)

InitTranscribe ==
    /\ audio_segment_splits \in Splits
    /\ segment_srt = [c \in 1..Len(audio_segment_splits) |-> NoFile]
    /\ local_subs = [c \in 1..Len(audio_segment_splits) |-> <<>>]
    /\ srt_path = NoFile
    /\ start_transcription_segment = 0 /\ force_transcription_from_audio = FALSE
    /\ segment_no = 0 /\ transcription = <<>> /\ sent = {} /\ read_back = {}
    /\ truns = 0 /\ tpc = "idle"
    /\ str_list = <<>> /\ chunk_size = 1 /\ overlap = 0 /\ drift = 0
    /\ srt_chunks = <<>>
    /\ ChunkOff /\ SessionOff /\ SegIdle /\ SrtOff /\ ReplyOff /\ DetectOff

\* transcribe_audio on the oversized asset, up to its loop: the context of
\* this run, the skip of an existing transcript, split_audio.
StartTranscription ==
    /\ tpc \in {"idle", "done", "failed", "skipped"}
    /\ truns < MaxRuns
    /\ \E n \in 0..MaxClusters, force \in BOOLEAN :
         /\ start_transcription_segment' = n
         /\ force_transcription_from_audio' = force
         /\ tpc' = IF srt_path.exists /\ ~force THEN "skipped" ELSE "loop"
    /\ truns' = truns + 1
    /\ segment_no' = 0 /\ transcription' = <<>> /\ sent' = {} /\ read_back' = {}
    /\ UNCHANGED <<audio_segment_splits, segment_srt, srt_path, local_subs>>
    /\ UNCHANGED <<docVars, srt_chunks, chunkVars, sessionVars>>
    /\ UNCHANGED <<audioVars, srtVars, replyVars>>
    /\ UNCHANGED detectVars

\* transcribe_file returning _transcribed_file(transcription_path, segment_offset);
\* open() raises when the file is not there.
ReadBack ==
    /\ tpc = "loop"
    /\ segment_no < Len(audio_segment_splits)
    /\ LET file == segment_srt[segment_no + 1]
           segment_offset == audio_segment_splits[segment_no + 1]
       IN  /\ ReadsBack(segment_no, start_transcription_segment,
                        force_transcription_from_audio, file.exists)
           /\ IF file.exists
              THEN /\ transcription' =
                        Append(transcription, _transcribed_file(file, segment_offset))
                   /\ segment_no' = segment_no + 1
                   /\ read_back' = read_back \cup {segment_no}
                   /\ tpc' = "loop"
              ELSE /\ tpc' = "failed"
                   /\ UNCHANGED <<transcription, segment_no, read_back>>
    /\ UNCHANGED <<audio_segment_splits, segment_srt, srt_path,
                   start_transcription_segment, force_transcription_from_audio,
                   local_subs, sent, truns>>
    /\ UNCHANGED <<docVars, srt_chunks, chunkVars, sessionVars>>
    /\ UNCHANGED <<audioVars, srtVars, replyVars>>
    /\ UNCHANGED detectVars

\* transcribe_file past both tests: the cluster goes to the service.
SendAudio ==
    /\ tpc = "loop"
    /\ segment_no < Len(audio_segment_splits)
    /\ ~ReadsBack(segment_no, start_transcription_segment,
                  force_transcription_from_audio, segment_srt[segment_no + 1].exists)
    /\ tpc' = "called"
    /\ sent' = sent \cup {segment_no}
    /\ UNCHANGED <<audio_segment_splits, segment_srt, srt_path,
                   start_transcription_segment, force_transcription_from_audio,
                   segment_no, transcription, local_subs, read_back, truns>>
    /\ UNCHANGED <<docVars, srt_chunks, chunkVars, sessionVars>>
    /\ UNCHANGED <<audioVars, srtVars, replyVars>>
    /\ UNCHANGED detectVars

\* The service answers: the subs are shifted for segment_no > 0, written to
\* the cluster's transcript file and returned.
Transcribed ==
    /\ tpc = "called"
    /\ \E reply \in Transcripts :
         LET segment_offset == audio_segment_splits[segment_no + 1]
             subs == IF segment_no > 0
                     THEN shift_subtitles(reply, segment_offset)
                     ELSE reply
         IN  /\ segment_srt' = [segment_srt EXCEPT ![segment_no + 1] = SrtFile(subs)]
             /\ transcription' = Append(transcription, subs)
             /\ local_subs' = [local_subs EXCEPT ![segment_no + 1] = reply]
    /\ segment_no' = segment_no + 1
    /\ tpc' = "loop"
    /\ UNCHANGED <<audio_segment_splits, srt_path, start_transcription_segment,
                   force_transcription_from_audio, sent, read_back, truns>>
    /\ UNCHANGED <<docVars, srt_chunks, chunkVars, sessionVars>>
    /\ UNCHANGED <<audioVars, srtVars, replyVars>>
    /\ UNCHANGED detectVars

\* The service raises: the run ends with the cluster files written so far.
TranscriptionFails ==
    /\ tpc = "called"
    /\ tpc' = "failed"
    /\ UNCHANGED <<audio_segment_splits, segment_srt, srt_path,
                   start_transcription_segment, force_transcription_from_audio,
                   segment_no, transcription, local_subs, sent, read_back, truns>>
    /\ UNCHANGED <<docVars, srt_chunks, chunkVars, sessionVars>>
    /\ UNCHANGED <<audioVars, srtVars, replyVars>>
    /\ UNCHANGED detectVars

\* After the loop: f.write(transcription).  Once a cluster was read back the
\* accumulated value holds subtitle objects, not only text, and the write
\* may reject it; both outcomes are kept.
WriteTranscription ==
    /\ tpc = "loop"
    /\ segment_no = Len(audio_segment_splits)
    /\ \E accepted \in (IF read_back = {} THEN {TRUE} ELSE BOOLEAN) :
         IF accepted
         THEN /\ srt_path' = SrtFile(Flatten(transcription))
              /\ tpc' = "done"
         ELSE /\ tpc' = "failed"
              /\ UNCHANGED srt_path
    /\ UNCHANGED <<audio_segment_splits, segment_srt,
                   start_transcription_segment, force_transcription_from_audio,
                   segment_no, transcription, local_subs, sent, read_back, truns>>
    /\ UNCHANGED <<docVars, srt_chunks, chunkVars, sessionVars>>
    /\ UNCHANGED <<audioVars, srtVars, replyVars>>
    /\ UNCHANGED detectVars

NextTranscribe ==
    \/ StartTranscription
    \/ ReadBack
    \/ SendAudio
    \/ Transcribed
    \/ TranscriptionFails
    \/ WriteTranscription

SpecTranscribe == InitTranscribe /\ [][NextTranscribe]_vars

---------------------------------------------------------------------------
(* Claims about the transcription of an oversized asset, checked under      *)
(* SpecTranscribe.                                                          *)

\* C12 (the claim as stated): every cluster's entries in the assembled
\* transcript carry the cluster-local time the service gave them plus the
\* cluster's start offset, once, whether the cluster was sent to the service
\* in this run or read back from its transcript file.
C12_OffsetAppliedOnce ==
    /\ \A c \in 1..Len(transcription) :
          transcription[c] = shift_subtitles(local_subs[c], audio_segment_splits[c])
    /\ tpc = "done" =>
          srt_path.subs =
            Flatten([c \in 1..Len(audio_segment_splits) |->
                        shift_subtitles(local_subs[c], audio_segment_splits[c])])

\* C30 (the claim as stated): the transcript assembled from several clusters
\* carries ordinals that go up by one from each entry to the next, across
\* the cluster boundaries too: no ordinal repeats and none starts again at
\* the first entry of a cluster.
C30_OrdinalsDenseAcrossClusters ==
    (tpc = "done" /\ Len(audio_segment_splits) >= 2) =>
        /\ \A x \in 1..(Len(srt_path.subs) - 1) :
              srt_path.subs[x + 1].index = srt_path.subs[x].index + 1
        /\ \A x, y \in 1..Len(srt_path.subs) :
              srt_path.subs[x].index = srt_path.subs[y].index => x = y

\* C13: in a run with resume-from-segment n, a cluster below n is never sent
\* to the service but read from its file, also with the force flag set; a
\* cluster at or above n is sent when the force flag is set, also when its
\* transcript file exists; and without the force flag a cluster whose
\* transcript file exists is not sent.
C13_ResumeAndForce ==
    /\ [](\A c \in sent : c >= start_transcription_segment)
    /\ [](\A c \in read_back :
            c < start_transcription_segment \/ ~force_transcription_from_audio)
    /\ [][(tpc = "loop" /\ segment_no < Len(audio_segment_splits)
             /\ <<tpc, segment_no>>' # <<tpc, segment_no>>)
          => LET exists == segment_srt[segment_no + 1].exists
                 below == segment_no < start_transcription_segment
             IN  /\ below => (sent' = sent /\ tpc' # "called")
                 /\ (below /\ exists) => read_back' = read_back \cup {segment_no}
                 /\ (~below /\ force_transcription_from_audio)
                       => (tpc' = "called" /\ sent' = sent \cup {segment_no})
                 /\ (~force_transcription_from_audio /\ exists)
                       => (sent' = sent /\ read_back' = read_back \cup {segment_no})]_vars

\* A forced run resuming from segment 1 has read cluster 0 back from its file
\* and sent cluster 1 to the service although cluster 1's file exists.
C13_Witness ==
    /\ tpc = "called" /\ force_transcription_from_audio
    /\ start_transcription_segment = 1 /\ segment_no = 1
    /\ read_back = {0} /\ sent = {1}
    /\ segment_srt[2].exists

---------------------------------------------------------------------------
(* The subtitle file format: parse_block, srt_parse, srt_dump.  A text is a  *)
(* sequence of tokens: the line break NL, the space SP, a word W(a), an      *)
(* ordinal Idx(n), and Tc(s, e), the characters of s, the arrow with a space *)
(* on either side, and e.  A line holds at most one Tc token.  The text of   *)
(* an entry is a token sequence here, so that its line structure is kept.    *)

MaxBlocks == 3       \* most blocks of a subtitle file, most entries of a list

Tok(kind, a, b) == [kind |-> kind, a |-> a, b |-> b]
NL == Tok("nl", 0, 0)
SP == Tok("sp", 0, 0)
W(a) == Tok("w", a, 0)
Idx(n) == Tok("idx", n, 0)
Tc(s, e) == Tok("tc", s, e)

RECURSIVE SplitBlocks(_, _)
\* re.split of the text at every pair of line breaks, scanning from the left;
\* cur is the block read so far.
SplitBlocks(text, cur) ==
    IF text = <<>>
    THEN <<cur>>
    ELSE IF Len(text) >= 2 /\ text[1] = NL /\ text[2] = NL
    THEN <<cur>> \o SplitBlocks(SubSeq(text, 3, Len(text)), <<>>)
    ELSE SplitBlocks(Tail(text), Append(cur, Head(text)))

RECURSIVE SplitLines(_, _)
\* block.split at every line break
SplitLines(text, cur) ==
    IF text = <<>>
    THEN <<cur>>
    ELSE IF text[1] = NL
    THEN <<cur>> \o SplitLines(Tail(text), <<>>)
    ELSE SplitLines(Tail(text), Append(cur, Head(text)))

RECURSIVE JoinLines(_, _)
\* sep.join(lines)
JoinLines(lines, sep) ==
    IF lines = <<>> THEN <<>>
    ELSE IF Len(lines) = 1 THEN lines[1]
    ELSE lines[1] \o <<sep>> \o JoinLines(Tail(lines), sep)

\* timecodes.split on the arrow gives exactly a start and an end.
SplitsInTwo(line) == Cardinality({x \in 1..Len(line) : line[x].kind = "tc"}) = 1

NoSub == [text |-> <<>>, start_time |-> 0, end_time |-> 0]

\* parse_block with the ValueError left uncaught.
parse_block_uncaught(block) ==
    IF block = <<NL>> \/ block = <<>>
    THEN [kind |-> "blank", sub |-> NoSub]
    ELSE LET lines == SplitLines(block, <<>>)
         IN  IF Len(lines) < 2 \/ ~SplitsInTwo(lines[2])
             THEN [kind |-> "raise", sub |-> NoSub]
             ELSE LET tc == lines[2][CHOOSE x \in 1..Len(lines[2]) : lines[2][x].kind = "tc"]
                  IN  [kind |-> "sub",
                       sub |-> [text |-> JoinLines(SubSeq(lines, 3, Len(lines)), SP),
                                start_time |-> tc.a, end_time |-> tc.b]]

\* parse_block: "blank" is the silent None, "logged" the None after the
\* ValueError was caught and printed, "sub" the parsed entry.
parse_block(block) ==
    IF block = <<NL>> \/ block = <<>>
    THEN [kind |-> "blank", sub |-> NoSub]
    ELSE LET lines == SplitLines(block, <<>>)
         IN  IF Len(lines) < 2 \/ ~SplitsInTwo(lines[2])
             THEN [kind |-> "logged", sub |-> NoSub]
             ELSE LET tc == lines[2][CHOOSE x \in 1..Len(lines[2]) : lines[2][x].kind = "tc"]
                  IN  [kind |-> "sub",
                       sub |-> [text |-> JoinLines(SubSeq(lines, 3, Len(lines)), SP),
                                start_time |-> tc.a, end_time |-> tc.b]]

RECURSIVE ParseLoop(_, _, _)
\* The list comprehension of srt_parse over the blocks left; an exception
\* that parse_block lets through leaves srt_parse.
ParseLoop(blocks, subs, logs) ==
    IF blocks = <<>>
    THEN [exc |-> "none", val |-> subs, logged |-> logs]
    ELSE LET r == parse_block(Head(blocks))
         IN  IF r.kind = "raise"
             THEN [exc |-> "ValueError", val |-> <<>>, logged |-> logs]
             ELSE ParseLoop(Tail(blocks),
                            IF r.kind = "sub" THEN Append(subs, r.sub) ELSE subs,
                            IF r.kind = "logged" THEN logs + 1 ELSE logs)

srt_parse(text) == ParseLoop(SplitBlocks(text, <<>>), <<>>, 0)

\* The text written for one entry: ordinal from 1, timecodes, text, and an
\* empty line.
DumpEntry(index, subtitle) ==
    <<Idx(index), NL, Tc(subtitle.start_time, subtitle.end_time), NL>>
        \o subtitle.text \o <<NL, NL>>

\* srt_dump: every entry, then one more line break.
srt_dump(list) ==
    Flatten([n \in 1..Len(list) |-> DumpEntry(n, list[n])]) \o <<NL>>

\* The texts an entry given to srt_dump can carry: one line, two lines (as
\* word_wrap makes them), one line with a space, and the empty text.
DumpTexts == {<<W(0)>>, <<W(0), NL, W(1)>>, <<W(0), SP, W(1)>>, <<>>}

DumpLists ==
    UNION {{[p \in 1..n |-> [text |-> f[p], start_time |-> p - 1, end_time |-> p]] :
               f \in [1..n -> DumpTexts]} : n \in 0..MaxBlocks}

\* The blocks a subtitle file given to srt_parse is made of: well-formed with
\* one, two and no text lines; a single line; a second line that is no
\* timecode line; empty; a lone line break.
FileBlocks ==
    { <<Idx(1), NL, Tc(0, 1), NL, W(0)>>,
      <<Idx(2), NL, Tc(1, 2), NL, W(0), NL, W(1)>>,
      <<Idx(3), NL, Tc(2, 3)>>,
      <<W(0)>>,
      <<Idx(1), NL, W(1), NL, W(0)>>,
      <<>>,
      <<NL>> }

FileEnds == {<<>>, <<NL>>, <<NL, NL>>, <<NL, NL, NL>>}

FileTexts ==
    UNION {{Flatten([j \in 1..n |-> IF j < n THEN f[j] \o <<NL, NL>> ELSE f[j]]) \o end :
               f \in [1..n -> FileBlocks], end \in FileEnds} : n \in 1..MaxBlocks}

InitSrt ==
    /\ \/ fpc = "list" /\ dumped_list \in DumpLists /\ srt_text = <<>>
       \/ fpc = "file" /\ dumped_list = <<>> /\ srt_text \in FileTexts
    /\ subtitles = <<>> /\ logged = 0 /\ parse_exc = "none" /\ redumped = <<>>
    /\ str_list = <<>> /\ chunk_size = 1 /\ overlap = 0 /\ drift = 0
    /\ srt_chunks = <<>>
    /\ ChunkOff /\ SessionOff /\ SegIdle /\ TransOff /\ ReplyOff /\ DetectOff

\* srt_dump(srt_list=..., srt_filename=...)
SrtDump ==
    /\ fpc = "list"
    /\ srt_text' = srt_dump(dumped_list)
    /\ fpc' = "file"
    /\ UNCHANGED <<dumped_list, subtitles, logged, parse_exc, redumped>>
    /\ UNCHANGED <<docVars, srt_chunks, chunkVars, sessionVars, audioVars, transVars, replyVars>>
    /\ UNCHANGED detectVars

\* subtitles = srt_parse(text of the file)
SrtParse ==
    /\ fpc = "file"
    /\ LET r == srt_parse(srt_text)
       IN  /\ subtitles' = r.val
           /\ logged' = r.logged
           /\ parse_exc' = r.exc
    /\ fpc' = "parsed"
    /\ UNCHANGED <<dumped_list, srt_text, redumped>>
    /\ UNCHANGED <<docVars, srt_chunks, chunkVars, sessionVars, audioVars, transVars, replyVars>>
    /\ UNCHANGED detectVars

\* srt_dump of what srt_parse returned
SrtRedump ==
    /\ fpc = "parsed" /\ parse_exc = "none"
    /\ redumped' = srt_dump(subtitles)
    /\ fpc' = "redumped"
    /\ UNCHANGED <<dumped_list, srt_text, subtitles, logged, parse_exc>>
    /\ UNCHANGED <<docVars, srt_chunks, chunkVars, sessionVars, audioVars, transVars, replyVars>>
    /\ UNCHANGED detectVars

NextSrt ==
    \/ SrtDump
    \/ SrtParse
    \/ SrtRedump

SpecSrt == InitSrt /\ [][NextSrt]_vars

---------------------------------------------------------------------------
(* Claims about the subtitle file format, checked under SpecSrt. *)

RECURSIVE StripTrailing(_)
\* The text without the white space at its end.
StripTrailing(text) ==
    IF text # <<>> /\ text[Len(text)] \in {NL, SP}
    THEN StripTrailing(SubSeq(text, 1, Len(text) - 1))
    ELSE text

\* C14 (the claim as stated): for every text srt_dump produces, texts of
\* several lines included, srt_parse followed by srt_dump gives the same text
\* up to trailing white space: as many blocks, the same timecodes and the
\* same text lines in every block.
C14_DumpParseRoundTrip ==
    (fpc = "redumped" /\ srt_text = srt_dump(dumped_list))
        => /\ StripTrailing(redumped) = StripTrailing(srt_text)
           /\ Len(subtitles) = Len(dumped_list)
           /\ \A n \in 1..Len(subtitles) :
                 /\ subtitles[n].start_time = dumped_list[n].start_time
                 /\ subtitles[n].end_time = dumped_list[n].end_time
                 /\ SplitLines(subtitles[n].text, <<>>) =
                        SplitLines(dumped_list[n].text, <<>>)

\* A block of the file that parses: at least two lines, the second a
\* timecode line.
WellFormed(block) ==
    LET lines == SplitLines(block, <<>>)
    IN  Len(lines) >= 2 /\ SplitsInTwo(lines[2])

Blank(block) == block \in {<<>>, <<NL>>}

\* C15: srt_parse raises on no text; a blank block, at the end or elsewhere,
\* is skipped without a log line; every other block that is not well-formed
\* costs one log line and is dropped; and the result is the well-formed
\* blocks, in file order, with their timecodes.
C15_ParserNeverAborts ==
    fpc \in {"parsed", "redumped"}
        => LET blocks == SplitBlocks(srt_text, <<>>)
               good == SelectSeq(blocks, WellFormed)
           IN  /\ parse_exc = "none"
               /\ Len(subtitles) = Len(good)
               /\ \A n \in 1..Len(good) :
                     LET lines == SplitLines(good[n], <<>>)
                     IN  /\ Tc(subtitles[n].start_time, subtitles[n].end_time)
                              \in {lines[2][x] : x \in 1..Len(lines[2])}
                         /\ subtitles[n].text = JoinLines(SubSeq(lines, 3, Len(lines)), SP)
               /\ logged = Cardinality({j \in 1..Len(blocks) :
                                          ~Blank(blocks[j]) /\ ~WellFormed(blocks[j])})

\* A file with two well-formed blocks around a malformed one and a blank
\* block at its end was parsed: one log line, both entries, in order.
C15_Witness ==
    /\ fpc = "parsed" /\ parse_exc = "none"
    /\ logged = 1 /\ Len(subtitles) = 2
    /\ subtitles[1].start_time < subtitles[2].start_time
    /\ LET blocks == SplitBlocks(srt_text, <<>>)
       IN  /\ Len(blocks) = 4
           /\ WellFormed(blocks[1]) /\ ~WellFormed(blocks[2]) /\ ~Blank(blocks[2])
           /\ WellFormed(blocks[3]) /\ Blank(blocks[4])

---------------------------------------------------------------------------
(* replace_translation as a function of a chunk and the lines of a reply.    *)
(* The chunk's entries carry the source text 1; line x of the reply carries *)
(* the text 2 * x, so that every line of a reply has a text of its own.     *)

\* The chunks and the replies replace_translation is applied to: any numbers
\* from NoMatch to one past the largest chunk, in any order, with repeats.
ReplyChunks == {[p \in 1..n |-> Entry(p - 1, 1)] : n \in 1..MaxChunk}

ReplyLines ==
    UNION {{[x \in 1..n |-> [num |-> f[x], text |-> 2 * x]] :
               f \in [1..n -> NoMatch..MaxChunk]} : n \in 0..MaxChunk}

InitReply ==
    /\ reply_chunk \in ReplyChunks
    /\ reply_lines \in ReplyLines
    /\ rpc = "start" /\ replaced = NoResult
    /\ shuffled = <<>> /\ replaced_shuffled = NoResult
    /\ str_list = <<>> /\ chunk_size = 1 /\ overlap = 0 /\ drift = 0
    /\ srt_chunks = <<>>
    /\ ChunkOff /\ SessionOff /\ SegIdle /\ TransOff /\ SrtOff /\ DetectOff

\* replaced = replace_translation(reply_chunk, reply_lines)
Replace ==
    /\ rpc = "start"
    /\ replaced' = replace_translation(reply_chunk, reply_lines)
    /\ rpc' = "replaced"
    /\ UNCHANGED <<reply_chunk, reply_lines, shuffled, replaced_shuffled>>
    /\ UNCHANGED <<docVars, srt_chunks, chunkVars, sessionVars, audioVars, transVars, srtVars>>
    /\ UNCHANGED detectVars

\* The same lines arrive in another order: replace_translation on them.
ReplaceShuffled ==
    /\ rpc = "replaced"
    /\ \E f \in [1..Len(reply_lines) -> 1..Len(reply_lines)] :
          /\ \A x, y \in 1..Len(reply_lines) : f[x] = f[y] => x = y
          /\ shuffled' = [x \in 1..Len(reply_lines) |-> reply_lines[f[x]]]
    /\ replaced_shuffled' = replace_translation(reply_chunk, shuffled')
    /\ rpc' = "shuffled"
    /\ UNCHANGED <<reply_chunk, reply_lines, replaced>>
    /\ UNCHANGED <<docVars, srt_chunks, chunkVars, sessionVars, audioVars, transVars, srtVars>>
    /\ UNCHANGED detectVars

NextReply ==
    \/ Replace
    \/ ReplaceShuffled

SpecReply == InitReply /\ [][NextReply]_vars

---------------------------------------------------------------------------
(* Claims about replace_translation, checked under SpecReply. *)

\* The lines carry different numbers, each the index of an entry of the chunk.
DistinctInRange(lines, chunk) ==
    /\ \A x \in 1..Len(lines) : lines[x].num \in 0..(Len(chunk) - 1)
    /\ \A x, y \in 1..Len(lines) : lines[x].num = lines[y].num => x = y

\* C26: for a reply whose lines carry distinct in-range indices, the lines in
\* any other order give the same translated chunk.
C26_OrderOfLinesIrrelevant ==
    (rpc = "shuffled" /\ DistinctInRange(reply_lines, reply_chunk))
        => /\ replaced.exc = "none"
           /\ replaced_shuffled = replaced

\* Three lines with distinct in-range indices, not in the order of the
\* chunk, were applied again in reverse order.
C26_Witness ==
    /\ rpc = "shuffled" /\ DistinctInRange(reply_lines, reply_chunk)
    /\ Len(reply_lines) = 3
    /\ reply_lines[1].num # 0
    /\ shuffled = <<reply_lines[3], reply_lines[2], reply_lines[1]>>
    /\ replaced.val[1].text # reply_chunk[1].text

\* The last line of the reply that carries the number m, 0 if there is none.
LastLine(lines, m) ==
    LET hits == {x \in 1..Len(lines) : lines[x].num = m}
    IN  IF hits = {} THEN 0 ELSE CHOOSE x \in hits : \A y \in hits : y <= x

\* C28: in the chunk replace_translation returns, an entry whose index is in
\* no line of the reply keeps its source text, every entry keeps its
\* timecodes, the chunk keeps its length, and an entry whose index is in
\* several lines takes the text of the last of them.
C28_ReplacementByIndex ==
    (rpc # "start" /\ replaced.exc = "none")
        => /\ Len(replaced.val) = Len(reply_chunk)
           /\ \A p \in 1..Len(reply_chunk) :
                 /\ replaced.val[p].start_time = reply_chunk[p].start_time
                 /\ replaced.val[p].end_time = reply_chunk[p].end_time
                 /\ replaced.val[p].text =
                       IF LastLine(reply_lines, p - 1) = 0
                       THEN reply_chunk[p].text
                       ELSE word_wrap(reply_lines[LastLine(reply_lines, p - 1)].text)

\* A reply of three lines, two of them for entry 0 and none for entry 1, was
\* applied to a chunk of three entries.
C28_Witness ==
    /\ rpc = "replaced" /\ replaced.exc = "none"
    /\ Len(reply_chunk) = 3 /\ Len(reply_lines) = 3
    /\ reply_lines[1].num = 0 /\ reply_lines[2].num = 2 /\ reply_lines[3].num = 0
    /\ replaced.val[1].text = word_wrap(reply_lines[3].text)
    /\ replaced.val[2].text = reply_chunk[2].text

---------------------------------------------------------------------------
(* Silence detection: detect_silence_splits_with_ffmpeg                      *)
(* (src/subverses/audio_parse.py) on what ffmpeg writes and how it exits.    *)
(* Times are whole numbers and min_silence_len_sec is even, so that half of  *)
(* it is a whole number too.                                                 *)

MaxLines == 3        \* most lines ffmpeg writes
MaxSilence == 2      \* latest silence_start

RECURSIVE SplitPoints(_, _)
\* The list comprehension: for every line with "silence_start" in it, in
\* order, the number after it plus half of min_silence_len_sec.
SplitPoints(lines, min_len) ==
    IF lines = <<>>
    THEN <<>>
    ELSE (IF Head(lines).silence_start > 0
          THEN <<Head(lines).silence_start + min_len \div 2>>
          ELSE <<>>) \o SplitPoints(Tail(lines), min_len)

\* detect_silence_splits_with_ffmpeg, ffmpeg writing `written` and exiting
\* with rc.
detect_silence_splits_with_ffmpeg(written, rc, min_len) ==
    LET out == communicate(written)
    IN  IF Truthy(out.stderr_output)
        THEN Raise("SilenceDetectionError")
        ELSE IF rc # 0
        THEN Raise("AudioParseError")
        ELSE Ok(SplitPoints(out.stdout_output.lines, min_len))

\* What ffmpeg can write: up to MaxLines lines, each to either stream, each
\* reporting a silence or not.
ToolLines == {Line(st, t) : st \in {"stdout", "stderr"}, t \in 0..MaxSilence}
Written == UNION {[1..n -> ToolLines] : n \in 0..MaxLines}

InitDetect ==
    /\ tool_written \in Written
    /\ tool_returncode \in {0, 1}
    /\ min_silence_len_sec \in {0, 2}
    /\ dpc = "start" /\ silence_splits = NoResult
    /\ str_list = <<>> /\ chunk_size = 1 /\ overlap = 0 /\ drift = 0
    /\ srt_chunks = <<>>
    /\ ChunkOff /\ SessionOff /\ SegIdle /\ TransOff /\ SrtOff /\ ReplyOff

\* silence_splits = detect_silence_splits_with_ffmpeg(context)
Detect ==
    /\ dpc = "start"
    /\ silence_splits' = detect_silence_splits_with_ffmpeg(
                            tool_written, tool_returncode, min_silence_len_sec)
    /\ dpc' = "done"
    /\ UNCHANGED <<tool_written, tool_returncode, min_silence_len_sec>>
    /\ UNCHANGED <<docVars, srt_chunks, chunkVars, sessionVars>>
    /\ UNCHANGED <<audioVars, transVars, srtVars, replyVars>>

NextDetect == Detect

SpecDetect == InitDetect /\ [][NextDetect]_vars

---------------------------------------------------------------------------
(* Claims about silence detection, checked under SpecDetect. *)

\* ffmpeg wrote a diagnostic: a line to its stderr.
Diagnostics == \E x \in 1..Len(tool_written) : tool_written[x].stream = "stderr"

\* C32 (the claim as stated): detect_silence_splits_with_ffmpeg raises
\* SilenceDetectionError whenever ffmpeg wrote any diagnostic, raises
\* AudioParseError when ffmpeg exited non-zero without diagnostics, and
\* returns split points only when neither happened.
C32_DiagnosticsAreFatal ==
    dpc = "done" =>
        /\ Diagnostics => silence_splits.exc = "SilenceDetectionError"
        /\ (~Diagnostics /\ tool_returncode # 0)
              => silence_splits.exc = "AudioParseError"
        /\ silence_splits.exc = "none" => (~Diagnostics /\ tool_returncode = 0)

===========================================================================
